---- MODULE Spec2Model ----
(***************************************************************************)
(* Session telemetry pipeline of component-breaker.                        *)
(*                                                                         *)
(*   - the ingestion API (Hono worker, D1 tables, KV cache) and its        *)
(*     per-session WebSocket Durable Object: src/unnamed/part_008,         *)
(*     schema src/unnamed/part_007;                                        *)
(*   - the client-side batching agent: src/unnamed/part_003.               *)
(*                                                                         *)
(* Request handlers are async functions: every await on the store, the     *)
(* cache or the Durable Object is a point where another request may run,   *)
(* so a handler is a sequence of steps of the worker that runs it.         *)
(***************************************************************************)
EXTENDS Integers, Sequences, FiniteSets, TLC

\* ------------------------------------------------------------------ bounds
MaxTicks == 1          \* clock advances before time stops
TickMs == 1200         \* milliseconds of one clock advance
MaxSessions == 2       \* session ids generateId hands out
MaxReqs == 3           \* requests served in Spec
MaxIngestReqs == 3     \* requests served in SpecIngest
MaxMetricsReqs == 4    \* requests served in SpecMetrics
MaxBroadcasts == 2     \* broadcasts pushed in SpecWs
MaxRecords == 11       \* events the workflow records in SpecClient
MaxImmediate == 1      \* the first of these may be recorded with options.immediate
MaxStarts == 1         \* startSession calls that reach the backend, made before as many events
MaxLiveReqs == 3       \* requests served in SpecLive
MaxOperations == 1     \* file, git and insight requests the agent sends
MaxAgentRecords == 2   \* events the workflow records in SpecAgent
MaxRaceReqs == 3       \* requests served in SpecRace
MaxHistoryReqs == 4    \* requests served in SpecHistory
MaxHours == 1          \* hours that pass in SpecFrame
MaxShips == 2          \* ship commands run in SpecShip
MaxLifecycleReqs == 3  \* requests served in SpecLifecycle
MaxFrameReqs == 3      \* requests served in SpecFrame
MaxInsightReqs == 3    \* requests served in SpecInsights
MaxStatusReqs == 2     \* requests served in SpecStatus
MaxChannelReqs == 3    \* requests served in SpecChannel
MaxLogReqs == 5        \* requests served in SpecLog
MaxEmitReqs == 2       \* requests served in SpecEmit

\* ------------------------------------------------------- program constants
KvTtlSeconds == 3600
FlushThreshold == 10
HistoryKept == 10

\* --------------------------------------------------------------- the inputs
Workers == {"w1", "w2"}
ProjectIds == {"p1", "p2"}
Sockets == {"k1", "k2", "k3"}
UnknownId == <<"unknown">>   \* a session id no generateId call ever returned

\* Event-type names are kept as their "_"-separated words.
EventTypeEnum ==
    { <<"session", "start">>, <<"session", "end">>,
      <<"documentation", "start">>, <<"documentation", "end">>,
      <<"git", "status">>, <<"git", "add">>, <<"git", "commit">>,
      <<"git", "push">>, <<"git", "diff">>,
      <<"build", "start">>, <<"build", "end">>,
      <<"deploy", "start">>, <<"deploy", "end">>,
      <<"analysis", "start">>, <<"analysis", "end">>,
      <<"file", "read">>, <<"file", "write">>,
      <<"ai", "analysis">>, <<"health", "check">>, <<"error", "occurred">> }

FileOperationEnum ==
    { <<"read">>, <<"write">>, <<"create">>, <<"delete">>, <<"modify">> }

GitOperationEnum ==
    { <<"status">>, <<"add">>, <<"commit">>, <<"push">>, <<"diff">> }

\* What the callers of the model send.
EventTypeInputs == { <<"git", "commit">>, <<"build", "end">>,
                     <<"git", "operations", "start">> }
FileOperationInputs == { <<"write">>, <<"rename">> }
GitOperationInputs == { <<"commit">>, <<"merge">> }
CompleteStatusInputs == {"completed", "failed"}

\* ------------------------------------------------------------------ values
Null == <<>>
Some(v) == <<v>>

\* Date.prototype.toISOString keeps milliseconds: "....-..T..:..:ss.mmmZ".
\* The string is kept as <<whole seconds, milliseconds>>.
toISOString(ms) == <<ms \div 1000, ms % 1000>>

\* new Date(iso).getTime()
getTime(iso) == iso[1] * 1000 + iso[2]

VARIABLES
    clock,              \* wall clock of the platform, ms
    uuid,               \* session ids handed out so far
    budget,             \* requests the API will still accept
    req,                \* per worker: the request it runs and its position
    projects,           \* D1 table projects
    shipping_sessions,  \* D1 table shipping_sessions
    shipping_events,    \* D1 table shipping_events
    file_operations,    \* D1 table file_operations
    git_operations,     \* D1 table git_operations
    realtime_status,    \* D1 table realtime_status
    ai_insights,        \* D1 table ai_insights
    kv,                 \* ANALYTICS_KV: key -> [value, expirationTtl]
    sessions,           \* per Durable Object: its Set<WebSocket>, in insertion order
    socket,             \* per WebSocket: its state and the session id it asked for
    received,           \* per WebSocket: the messages sent to its client
    nmsg,               \* per Durable Object: the broadcast requests it answered
    agent,              \* the client's ShippingAnalyticsService instance
    probe,              \* its construction-time health probe: "pending" or "done"
    driver,             \* what the workflow that drives the client awaits
    flushes,            \* the flushEvents loops awaiting a send
    posted,             \* the requests the client has sent, in sending order
    nrec,               \* events the client has built
    returned,           \* what the client's last call handed to its caller
    orchestrator,       \* the MarioShippingOrchestrator of the running ship command
    workspace           \* the project directory the ship command runs in

dbVars == <<projects, shipping_sessions, shipping_events, file_operations,
            git_operations, realtime_status, ai_insights>>
wsVars == <<sessions, socket, received, nmsg>>
serverVars == <<clock, uuid, budget, req, dbVars, kv>>
clientVars == <<agent, probe, driver, flushes, posted, nrec, returned>>
shipVars == <<orchestrator, workspace>>
vars == <<serverVars, wsVars, clientVars, shipVars>>

\* crypto.randomUUID(): an id that was never handed out before.
generateId == <<"uuid", uuid + 1>>

\* ------------------------------------------------------------ the D1 store
\* A table is the sequence of its rows in insertion (rowid) order.
RECURSIVE SelectWhere(_, _, _)
SelectWhere(table, col, v) ==
    IF table = <<>> THEN <<>>
    ELSE IF Head(table)[col] = v
         THEN <<Head(table)>> \o SelectWhere(Tail(table), col, v)
         ELSE SelectWhere(Tail(table), col, v)

\* D1PreparedStatement.first(): the first row of the result, or null.
first(rows) == IF rows = <<>> THEN Null ELSE Some(rows[1])

ForeignKeysOff(parent, id) == TRUE

\* FOREIGN KEY (...) REFERENCES parent(id): D1 enforces foreign keys.
ForeignKeyOk(parent, id) == SelectWhere(parent, "id", id) # <<>>

\* PRIMARY KEY: no second row with the same id.
PrimaryKeyOk(table, id) == SelectWhere(table, "id", id) = <<>>

\* ------------------------------------------------------------- the KV cache
sessionKey(sessionId) == <<"session", sessionId>>
statusKey(sessionId) == <<"status", sessionId>>

\* put(key, value, { expirationTtl: 3600 })
KvPut(key, value) ==
    (key :> [value |-> value, expirationTtl |-> KvTtlSeconds]) @@ kv

KvDelete(key) == [k \in DOMAIN kv \ {key} |-> kv[k]]

\* KVNamespace.get: null for a key that is absent.
KvGet(key) == IF key \in DOMAIN kv THEN Some(kv[key].value) ELSE Null

\* ---------------------------------------------- the WebSocket Durable Object
idFromNameShared(name) == <<"do", "analytics">>

\* ANALYTICS_WEBSOCKET.idFromName: the object id derived from a name, the
\* same id for the same name and another id for another name.
idFromName(name) == <<"do", name>>

\* One set for every object of the isolate.
RECURSIVE Concat(_, _)
Concat(f, dom) ==
    IF dom = {} THEN <<>>
    ELSE LET x == CHOOSE y \in dom : TRUE IN f[x] \o Concat(f, dom \ {x})

SessionsShared(id) == Concat(sessions, DOMAIN sessions)

\* The Set<WebSocket> of an object; an object that was never addressed has
\* the empty set it is constructed with.
SessionsOf(id) == IF id \in DOMAIN sessions THEN sessions[id] ELSE <<>>

\* The broadcast requests an object has answered.
Broadcasts(id) == IF id \in DOMAIN nmsg THEN nmsg[id] ELSE 0

Range(seq) == {seq[i] : i \in 1..Len(seq)}

RemoveAt(seq, i) == SubSeq(seq, 1, i - 1) \o SubSeq(seq, i + 1, Len(seq))

\* The loop over an array that is spliced while it is indexed.
RECURSIVE BroadcastLoopSkipping(_, _, _, _)
BroadcastLoopSkipping(set, i, got, data) ==
    IF i > Len(set) THEN [set |-> set, got |-> got]
    ELSE IF socket[set[i]].state = "open"
         THEN BroadcastLoopSkipping(set, i + 1,
                            [got EXCEPT ![set[i]] = Append(@, data)], data)
         ELSE BroadcastLoopSkipping(RemoveAt(set, i), i + 1, got, data)

RECURSIVE BroadcastLoopRestarting(_, _, _, _)
BroadcastLoopRestarting(set, i, got, data) ==
    IF i > Len(set) THEN [set |-> set, got |-> got]
    ELSE IF socket[set[i]].state = "open"
         THEN BroadcastLoopRestarting(set, i + 1,
                            [got EXCEPT ![set[i]] = Append(@, data)], data)
         ELSE BroadcastLoopRestarting(RemoveAt(set, i), 1, got, data)

\* for (const session of this.sessions) { try send catch delete }: a Set's
\* iterator goes on with the entry after a deleted one.  send throws on a
\* socket whose peer is gone.
RECURSIVE BroadcastLoop(_, _, _, _)
BroadcastLoop(set, i, got, data) ==
    IF i > Len(set) THEN [set |-> set, got |-> got]
    ELSE IF socket[set[i]].state = "open"
         THEN BroadcastLoop(set, i + 1,
                            [got EXCEPT ![set[i]] = Append(@, data)], data)
         ELSE BroadcastLoop(RemoveAt(set, i), i, got, data)

\* fetch(POST /broadcast) of the object `id`: broadcast(message), then 'OK'.
broadcast(id, message) ==
    LET data == [message EXCEPT !.n = Broadcasts(id) + 1]
        out == BroadcastLoop(SessionsOf(id), 1, received, data)
    IN /\ sessions' = (id :> out.set) @@ sessions
       /\ received' = out.got
       /\ nmsg' = (id :> Broadcasts(id) + 1) @@ nmsg
       /\ UNCHANGED socket

\* wsObject.fetch(POST /broadcast) inside try/catch: the fetch reaches the
\* object of this session id, or throws and the error is only logged.
broadcastSessionUpdate(sessionId, message) ==
    \/ broadcast(idFromName(sessionId), message)
    \/ UNCHANGED wsVars

NoSocket == [state |-> "none", sessionId |-> UnknownId, joined |-> 0]

\* GET /api/ws/:sessionId with Upgrade: websocket, forwarded to the object of
\* that session id: server.accept(); this.sessions.add(server).
Upgrade(k, sessionId) ==
    /\ socket[k].state = "none"
    /\ LET id == idFromName(sessionId)
       IN /\ sessions' = (id :> Append(SessionsOf(id), k)) @@ sessions
          /\ socket' = [socket EXCEPT ![k] =
                 [state |-> "open", sessionId |-> sessionId,
                  joined |-> Cardinality({j \in Sockets :
                                 socket[j].sessionId = sessionId}) + 1]]
    /\ UNCHANGED <<received, nmsg, serverVars, clientVars, shipVars>>

\* The subscriber goes away: from now on send throws, and the socket's close
\* (or error) event waits to be dispatched.
PeerGone(k) ==
    /\ socket[k].state = "open"
    /\ socket' = [socket EXCEPT ![k].state = "broken"]
    /\ UNCHANGED <<sessions, received, nmsg, serverVars, clientVars, shipVars>>

OnCloseKeeping(k) ==
    /\ socket[k].state = "broken"
    /\ socket' = [socket EXCEPT ![k].state = "closed"]
    /\ UNCHANGED <<sessions, received, nmsg, serverVars, clientVars, shipVars>>

\* The 'close' / 'error' listener: this.sessions.delete(server).
OnClose(k) ==
    /\ socket[k].state = "broken"
    /\ socket' = [socket EXCEPT ![k].state = "closed"]
    /\ LET id == idFromName(socket[k].sessionId)
       IN sessions' = [sessions EXCEPT ![id] = SelectSeq(@, LAMBDA j : j # k)]
    /\ UNCHANGED <<received, nmsg, serverVars, clientVars, shipVars>>

\* ------------------------------------------------------------- the requests
NoResp == [code |-> 0, body |-> <<>>]

Idle == [kind |-> "idle", pc |-> "done", sid |-> UnknownId, pid |-> "",
         type |-> <<>>, success |-> TRUE, timestamp |-> Null,
         duration |-> Null, status |-> "", resp |-> NoResp]

Free(w) == req[w].pc = "done" /\ budget > 0

\* Session ids a caller can name: ids of stored sessions, or an unknown one.
KnownIds == {shipping_sessions[i].id : i \in 1..Len(shipping_sessions)}

\* The handler is over: only the request and its response are kept.
Respond(w, code, body) ==
    req' = [req EXCEPT ![w] = [Idle EXCEPT !.kind = req[w].kind,
                                   !.sid = req[w].sid, !.pid = req[w].pid,
                                   !.type = req[w].type,
                                   !.resp = [code |-> code, body |-> body]]]

Goto(w, pc) == req' = [req EXCEPT ![w].pc = pc]

\* --- POST /api/sessions
BeginStartSession(w, projectId) ==
    /\ Free(w)
    /\ uuid < MaxSessions
    /\ uuid' = uuid + 1
    /\ budget' = budget - 1
    /\ req' = [req EXCEPT ![w] = [Idle EXCEPT !.kind = "start",
                  !.pc = "ensureProject", !.sid = generateId, !.pid = projectId,
                  !.timestamp = toISOString(clock)]]
    /\ UNCHANGED <<shipVars, clientVars, clock, dbVars, kv, wsVars>>

EnsureProjectSelect(w) ==
    /\ req[w].pc = "ensureProject"
    /\ IF first(SelectWhere(projects, "id", req[w].pid)) = Null
       THEN Goto(w, "insertProject")
       ELSE Goto(w, "insertSession")
    /\ UNCHANGED <<shipVars, clientVars, clock, uuid, budget, dbVars, kv, wsVars>>

EnsureProjectInsert(w) ==
    /\ req[w].pc = "insertProject"
    /\ IF PrimaryKeyOk(projects, req[w].pid)
       THEN /\ projects' = Append(projects,
                  [id |-> req[w].pid, name |-> req[w].pid, total_ships |-> 0,
                   last_ship_at |-> Null, health_score |-> 100])
            /\ Goto(w, "insertSession")
       ELSE /\ Respond(w, 500, <<"error", "Failed to start session">>)
            /\ UNCHANGED projects
    /\ UNCHANGED <<shipVars, clientVars, clock, uuid, budget, shipping_sessions, shipping_events,
                   file_operations, git_operations, realtime_status, ai_insights, kv,
                   wsVars>>

InsertSession(w) ==
    /\ req[w].pc = "insertSession"
    /\ IF ForeignKeyOk(projects, req[w].pid)
       THEN /\ shipping_sessions' = Append(shipping_sessions,
                  [id |-> req[w].sid, project_id |-> req[w].pid,
                   session_start |-> req[w].timestamp, session_end |-> Null,
                   status |-> "running", total_duration_ms |-> Null])
            /\ Goto(w, "kvPutSession")
       ELSE /\ Respond(w, 500, <<"error", "Failed to start session">>)
            /\ UNCHANGED shipping_sessions
    /\ UNCHANGED <<shipVars, clientVars, clock, uuid, budget, projects, shipping_events,
                   file_operations, git_operations, realtime_status, ai_insights, kv,
                   wsVars>>

KvPutSession(w) ==
    /\ req[w].pc = "kvPutSession"
    /\ kv' = KvPut(sessionKey(req[w].sid),
                   [id |-> req[w].sid, projectId |-> req[w].pid,
                    status |-> "running", startTime |-> req[w].timestamp])
    /\ Goto(w, "broadcastStarted")
    /\ UNCHANGED <<shipVars, clientVars, clock, uuid, budget, dbVars, wsVars>>

BroadcastStartedUncaught(w) ==
    /\ req[w].pc = "broadcastStarted"
    /\ \/ /\ broadcast(idFromName(req[w].sid),
                [type |-> "session_started", sessionId |-> req[w].sid, n |-> 0])
          /\ Respond(w, 201, <<"sessionId", req[w].sid>>)
       \/ /\ UNCHANGED wsVars
          /\ Respond(w, 500, <<"error", "Failed to start session">>)
    /\ UNCHANGED <<shipVars, clientVars, clock, uuid, budget, dbVars, kv>>

\* await this.broadcastSessionUpdate(...); return { sessionId }
BroadcastStarted(w) ==
    /\ req[w].pc = "broadcastStarted"
    /\ broadcastSessionUpdate(req[w].sid,
           [type |-> "session_started", sessionId |-> req[w].sid, n |-> 0])
    /\ Respond(w, 201, <<"sessionId", req[w].sid>>)
    /\ UNCHANGED <<shipVars, clientVars, clock, uuid, budget, dbVars, kv>>

\* The routes without their zValidator.
AnyEventType(eventType) == TRUE

\* ShippingEventSchema.eventType, FileOperationSchema.operationType and
\* GitOperationSchema.operationType: z.enum([...])
ValidEventType(eventType) == eventType \in EventTypeEnum

ValidFileOperation(operationType) == operationType \in FileOperationEnum

ValidGitOperation(operationType) == operationType \in GitOperationEnum

\* --- POST /api/events
\* zValidator('json', ShippingEventSchema): a body that fails the schema is
\* answered 400 and the handler does not run.
\* const timestamp = data.timestamp || this.now();
BeginRecordEvent(w, sessionId, eventType, success, timestamp) ==
    /\ Free(w)
    /\ budget' = budget - 1
    /\ IF ValidEventType(eventType)
       THEN req' = [req EXCEPT ![w] = [Idle EXCEPT !.kind = "event",
                       !.pc = "insertEvent", !.sid = sessionId,
                       !.type = eventType, !.success = success,
                       !.timestamp = IF timestamp = Null
                                     THEN toISOString(clock)
                                     ELSE timestamp[1]]]
       ELSE req' = [req EXCEPT ![w] = [Idle EXCEPT !.kind = "event",
                       !.sid = sessionId, !.type = eventType,
                       !.success = success,
                       !.resp = [code |-> 400, body |-> <<"success", FALSE>>]]]
    /\ UNCHANGED <<shipVars, clientVars, clock, uuid, dbVars, kv, wsVars>>

InsertEvent(w) ==
    /\ req[w].pc = "insertEvent"
    /\ IF ForeignKeyOk(shipping_sessions, req[w].sid)
       THEN /\ shipping_events' = Append(shipping_events,
                  [session_id |-> req[w].sid, event_type |-> req[w].type,
                   event_timestamp |-> req[w].timestamp,
                   success |-> req[w].success])
            /\ Goto(w, "statusRow")
       ELSE /\ Respond(w, 500, <<"error", "Failed to record event">>)
            /\ UNCHANGED shipping_events
    /\ UNCHANGED <<shipVars, clientVars, clock, uuid, budget, projects, shipping_sessions,
                   file_operations, git_operations, realtime_status, ai_insights, kv,
                   wsVars>>

\* data.eventType.endsWith('_end')
endsWith_end(eventType) ==
    Len(eventType) >= 2 /\ eventType[Len(eventType)] = "end"

StatusUpdateRaw(eventType, success) ==
    [currentStep |-> eventType,
     stepProgress |-> IF endsWith_end(eventType) THEN 100 ELSE 50,
     isError |-> success]

\* The update recordEvent hands to updateRealtimeStatus.
StatusUpdate(eventType, success) ==
    [currentStep |-> eventType,
     stepProgress |-> IF endsWith_end(eventType) THEN 100 ELSE 50,
     isError |-> ~success]

\* INSERT OR REPLACE: a row with the same primary key is replaced.
InsertOrReplace(table, row) ==
    SelectSeq(table, LAMBDA r : r.id # row.id) \o <<row>>

\* updateRealtimeStatus, the durable row; its id is a fresh generateId().
InsertStatusRow(w) ==
    /\ req[w].pc = "statusRow"
    /\ IF ForeignKeyOk(shipping_sessions, req[w].sid)
       THEN /\ LET u == StatusUpdate(req[w].type, req[w].success)
               IN realtime_status' = InsertOrReplace(realtime_status,
                      [id |-> <<"status-uuid", Len(realtime_status) + 1>>,
                       session_id |-> req[w].sid,
                       current_step |-> u.currentStep,
                       step_progress |-> u.stepProgress,
                       is_error |-> u.isError,
                       last_update |-> toISOString(clock)])
            /\ Goto(w, "statusKv")
       ELSE /\ Respond(w, 500, <<"error", "Failed to record event">>)
            /\ UNCHANGED realtime_status
    /\ UNCHANGED <<shipVars, clientVars, clock, uuid, budget, projects, shipping_sessions,
                   shipping_events, file_operations, git_operations, ai_insights,
                   kv, wsVars>>

\* updateRealtimeStatus, the cache copy; then recordEvent returns.
KvPutStatus(w) ==
    /\ req[w].pc = "statusKv"
    /\ kv' = KvPut(statusKey(req[w].sid),
                   StatusUpdate(req[w].type, req[w].success))
    /\ Respond(w, 201, <<"eventId">>)
    /\ UNCHANGED <<shipVars, clientVars, clock, uuid, budget, dbVars, wsVars>>

\* --- POST /api/file-operations
BeginRecordFileOperation(w, sessionId, operationType) ==
    /\ Free(w)
    /\ budget' = budget - 1
    /\ IF ValidFileOperation(operationType)
       THEN req' = [req EXCEPT ![w] = [Idle EXCEPT !.kind = "fileop",
                       !.pc = "insertFileOperation", !.sid = sessionId,
                       !.type = operationType]]
       ELSE req' = [req EXCEPT ![w] = [Idle EXCEPT !.kind = "fileop",
                       !.sid = sessionId, !.type = operationType,
                       !.resp = [code |-> 400, body |-> <<"success", FALSE>>]]]
    /\ UNCHANGED <<shipVars, clientVars, clock, uuid, dbVars, kv, wsVars>>

InsertFileOperation(w) ==
    /\ req[w].pc = "insertFileOperation"
    /\ IF ForeignKeyOk(shipping_sessions, req[w].sid)
       THEN /\ file_operations' = Append(file_operations,
                  [session_id |-> req[w].sid, operation_type |-> req[w].type,
                   timestamp |-> toISOString(clock)])
            /\ Respond(w, 201, <<"operationId">>)
       ELSE /\ Respond(w, 500, <<"error", "Failed to record file operation">>)
            /\ UNCHANGED file_operations
    /\ UNCHANGED <<shipVars, clientVars, clock, uuid, budget, projects, shipping_sessions,
                   shipping_events, git_operations, realtime_status, ai_insights, kv,
                   wsVars>>

\* --- POST /api/git-operations
BeginRecordGitOperation(w, sessionId, operationType) ==
    /\ Free(w)
    /\ budget' = budget - 1
    /\ IF ValidGitOperation(operationType)
       THEN req' = [req EXCEPT ![w] = [Idle EXCEPT !.kind = "gitop",
                       !.pc = "insertGitOperation", !.sid = sessionId,
                       !.type = operationType]]
       ELSE req' = [req EXCEPT ![w] = [Idle EXCEPT !.kind = "gitop",
                       !.sid = sessionId, !.type = operationType,
                       !.resp = [code |-> 400, body |-> <<"success", FALSE>>]]]
    /\ UNCHANGED <<shipVars, clientVars, clock, uuid, dbVars, kv, wsVars>>

InsertGitOperation(w) ==
    /\ req[w].pc = "insertGitOperation"
    /\ IF ForeignKeyOk(shipping_sessions, req[w].sid)
       THEN /\ git_operations' = Append(git_operations,
                  [session_id |-> req[w].sid, operation_type |-> req[w].type,
                   timestamp |-> toISOString(clock), success |-> TRUE])
            /\ Respond(w, 201, <<"operationId">>)
       ELSE /\ Respond(w, 500, <<"error", "Failed to record git operation">>)
            /\ UNCHANGED git_operations
    /\ UNCHANGED <<shipVars, clientVars, clock, uuid, budget, projects, shipping_sessions,
                   shipping_events, file_operations, realtime_status, ai_insights, kv,
                   wsVars>>

\* --- PUT /api/sessions/:sessionId/complete
\* The body is read with c.req.json(): no schema checks the status.
BeginCompleteSession(w, sessionId, status) ==
    /\ Free(w)
    /\ budget' = budget - 1
    /\ req' = [req EXCEPT ![w] = [Idle EXCEPT !.kind = "complete",
                  !.pc = "selectStart", !.sid = sessionId, !.status = status,
                  !.timestamp = toISOString(clock)]]
    /\ UNCHANGED <<shipVars, clientVars, clock, uuid, dbVars, kv, wsVars>>

DurationSwapped(session, timestamp) ==
    IF session # Null
    THEN Some(getTime(session[1].session_start) - getTime(timestamp))
    ELSE Null

\* let duration = null; if (session) duration = endTime - startTime
Duration(session, timestamp) ==
    IF session # Null
    THEN Some(getTime(timestamp) - getTime(session[1].session_start))
    ELSE Null

SelectSessionStart(w) ==
    /\ req[w].pc = "selectStart"
    /\ LET session == first(SelectWhere(shipping_sessions, "id", req[w].sid))
       IN req' = [req EXCEPT ![w].pc = "updateSession",
                             ![w].duration = Duration(session, req[w].timestamp)]
    /\ UNCHANGED <<shipVars, clientVars, clock, uuid, budget, dbVars, kv, wsVars>>

\* UPDATE shipping_sessions SET session_end, status, total_duration_ms WHERE id
UpdateSession(table, sessionId, timestamp, status, duration) ==
    [i \in 1..Len(table) |->
        IF table[i].id = sessionId
        THEN [table[i] EXCEPT !.session_end = timestamp, !.status = status,
                              !.total_duration_ms = duration]
        ELSE table[i]]

UpdateSessionRow(w) ==
    /\ req[w].pc = "updateSession"
    /\ shipping_sessions' = UpdateSession(shipping_sessions, req[w].sid,
           req[w].timestamp, req[w].status, req[w].duration)
    /\ Goto(w, "kvDelete")
    /\ UNCHANGED <<shipVars, clientVars, clock, uuid, budget, projects, shipping_events,
                   file_operations, git_operations, realtime_status, ai_insights, kv,
                   wsVars>>

KvDeleteSession(w) ==
    /\ req[w].pc = "kvDelete"
    /\ kv' = KvDelete(sessionKey(req[w].sid))
    /\ Goto(w, "broadcastCompleted")
    /\ UNCHANGED <<shipVars, clientVars, clock, uuid, budget, dbVars, wsVars>>

BroadcastCompleted(w) ==
    /\ req[w].pc = "broadcastCompleted"
    /\ broadcastSessionUpdate(req[w].sid,
           [type |-> "session_completed", sessionId |-> req[w].sid, n |-> 0])
    /\ Respond(w, 200, <<"duration", req[w].duration, "status", req[w].status>>)
    /\ UNCHANGED <<shipVars, clientVars, clock, uuid, budget, dbVars, kv>>

\* --- GET /api/projects/:projectId/dashboard -> getProjectMetrics
\* JavaScript numbers that are not whole are kept as reduced fractions.
RECURSIVE Gcd(_, _)
Gcd(a, b) == IF b = 0 THEN a ELSE Gcd(b, a % b)

NaN == <<"NaN">>
Infinity == <<"Infinity">>
Num(n, d) == <<"num", n \div Gcd(n, d), d \div Gcd(n, d)>>

\* ToNumber(null) is 0.
ToNumber(v) == IF v = Null THEN 0 ELSE v[1]

\* a / b on numbers a >= 0, b >= 0
Divide(a, b) ==
    IF b = 0 THEN (IF a = 0 THEN NaN ELSE Infinity) ELSE Num(a, b)

\* x * 100
Times100(x) == IF x[1] = "num" THEN Num(x[2] * 100, x[3]) ELSE x

RECURSIVE CountWhere(_, _, _)
CountWhere(table, col, v) == Len(SelectWhere(table, col, v))

RECURSIVE SumDurations(_)
SumDurations(rows) ==
    IF rows = <<>> THEN 0
    ELSE ToNumber(Head(rows).total_duration_ms) + SumDurations(Tail(rows))

\* SELECT COUNT(*), AVG(total_duration_ms), SUM(CASE WHEN status =
\* 'completed' THEN 1 ELSE 0 END) ... WHERE project_id = ?: an aggregate
\* without GROUP BY yields exactly one row, also over no rows, and then its
\* SUM and AVG are NULL.
TotalShipsQuery(projectId) ==
    LET rows == SelectWhere(shipping_sessions, "project_id", projectId)
        timed == SelectSeq(rows, LAMBDA r : r.total_duration_ms # Null)
    IN << [total_ships |-> Len(rows),
           avg_duration |-> IF timed = <<>> THEN Null
                            ELSE Some(Num(SumDurations(timed), Len(timed))),
           successful_ships |-> IF rows = <<>> THEN Null
                                ELSE Some(CountWhere(rows, "status", "completed"))] >>

\* SELECT AVG(total_duration_ms) ... WHERE project_id = ? AND
\* total_duration_ms IS NOT NULL: one row, whose average is NULL over no rows.
AvgDurationQuery(projectId) ==
    LET rows == SelectWhere(shipping_sessions, "project_id", projectId)
        timed == SelectSeq(rows, LAMBDA r : r.total_duration_ms # Null)
    IN << [avg_duration |-> IF timed = <<>> THEN Null
                            ELSE Some(Num(SumDurations(timed), Len(timed)))] >>

\* avgDuration: avgDuration?.avg_duration || 0
avgDuration(row) ==
    IF row # Null /\ row[1].avg_duration # Null
    THEN row[1].avg_duration[1]
    ELSE Num(0, 1)

\* successRate: totalShips ? (successful_ships / total_ships) * 100 : 100
successRate(totalShips) ==
    IF totalShips # Null
    THEN Times100(Divide(ToNumber(totalShips[1].successful_ships),
                         totalShips[1].total_ships))
    ELSE Num(100, 1)

BeginGetProjectMetrics(w, projectId) ==
    /\ Free(w)
    /\ budget' = budget - 1
    /\ req' = [req EXCEPT ![w] = [Idle EXCEPT !.kind = "metrics",
                  !.pc = "metricsQuery", !.pid = projectId]]
    /\ UNCHANGED <<shipVars, clientVars, clock, uuid, dbVars, kv, wsVars>>

GetProjectMetrics(w) ==
    /\ req[w].pc = "metricsQuery"
    /\ LET totalShips == first(TotalShipsQuery(req[w].pid))
       IN Respond(w, 200,
              <<"totalShips", IF totalShips = Null THEN 0
                              ELSE totalShips[1].total_ships,
                "successRate", successRate(totalShips),
                "avgDuration", avgDuration(first(AvgDurationQuery(req[w].pid)))>>)
    /\ UNCHANGED <<shipVars, clientVars, clock, uuid, budget, dbVars, kv, wsVars>>

\* --- GET /api/sessions/:sessionId
\* ORDER BY a timestamp column: ascending by the column; rows with equal
\* timestamps come in rowid order, the order of the (session_id, timestamp)
\* index the query walks.
InsertOrdered(sorted, row, col) ==
    LET k == Cardinality({i \in 1..Len(sorted) :
                 getTime(sorted[i][col]) <= getTime(row[col])})
    IN SubSeq(sorted, 1, k) \o <<row>> \o SubSeq(sorted, k + 1, Len(sorted))

RECURSIVE OrderBy(_, _)
OrderBy(rows, col) ==
    IF rows = <<>> THEN <<>>
    ELSE InsertOrdered(OrderBy(SubSeq(rows, 1, Len(rows) - 1), col),
                       rows[Len(rows)], col)

BeginGetSessionAnalytics(w, sessionId) ==
    /\ Free(w)
    /\ budget' = budget - 1
    /\ req' = [req EXCEPT ![w] = [Idle EXCEPT !.kind = "analytics",
                  !.pc = "analyticsQuery", !.sid = sessionId]]
    /\ UNCHANGED <<shipVars, clientVars, clock, uuid, dbVars, kv, wsVars>>

GetSessionAnalyticsUnscoped(w) ==
    /\ req[w].pc = "analyticsQuery"
    /\ Respond(w, 200,
          <<"session", first(SelectWhere(shipping_sessions, "id", req[w].sid)),
            "events", OrderBy(shipping_events, "event_timestamp"),
            "gitOperations", OrderBy(git_operations, "timestamp"),
            "fileOperations", OrderBy(file_operations, "timestamp")>>)
    /\ UNCHANGED <<shipVars, clientVars, clock, uuid, budget, dbVars, kv, wsVars>>

\* getSessionAnalytics: the session row and its three logs.
GetSessionAnalytics(w) ==
    /\ req[w].pc = "analyticsQuery"
    /\ Respond(w, 200,
          <<"session", first(SelectWhere(shipping_sessions, "id", req[w].sid)),
            "events", OrderBy(SelectWhere(shipping_events, "session_id",
                                          req[w].sid), "event_timestamp"),
            "gitOperations", OrderBy(SelectWhere(git_operations, "session_id",
                                                 req[w].sid), "timestamp"),
            "fileOperations", OrderBy(SelectWhere(file_operations, "session_id",
                                                  req[w].sid), "timestamp")>>)
    /\ UNCHANGED <<shipVars, clientVars, clock, uuid, budget, dbVars, kv, wsVars>>

\* --- POST /api/sessions/:sessionId/insights
BeginGenerateInsights(w, sessionId) ==
    /\ Free(w)
    /\ budget' = budget - 1
    /\ req' = [req EXCEPT ![w] = [Idle EXCEPT !.kind = "insights",
                  !.pc = "insightsLoad", !.sid = sessionId]]
    /\ UNCHANGED <<shipVars, clientVars, clock, uuid, dbVars, kv, wsVars>>

\* const analytics = await this.getSessionAnalytics(sessionId), before the
\* try block of generateInsights.
LoadAnalytics(w) ==
    /\ req[w].pc = "insightsLoad"
    /\ Goto(w, "aiRun")
    /\ UNCHANGED <<shipVars, clientVars, clock, uuid, budget, dbVars, kv, wsVars>>

\* catch (error) { return { error: 'AI analysis unavailable' } }
InsightsUnavailable == <<"error", "AI analysis unavailable">>

\* try { await this.env.AI.run(...) }: the model answers (ok) or the call
\* rejects and the catch of generateInsights returns its result.
AiRun(w, ok) ==
    /\ req[w].pc = "aiRun"
    /\ IF ok THEN Goto(w, "insertInsight")
             ELSE Respond(w, 200, InsightsUnavailable)
    /\ UNCHANGED <<shipVars, clientVars, clock, uuid, budget, dbVars, kv, wsVars>>

\* INSERT INTO ai_insights, still inside the try: the row is stored and the
\* model's answer returned, or the store rejects the insert (ok is false, or
\* the FOREIGN KEY on session_id fails) and the catch returns its result.
InsertInsight(w, ok) ==
    /\ req[w].pc = "insertInsight"
    /\ IF ok /\ ForeignKeyOk(shipping_sessions, req[w].sid)
       THEN /\ ai_insights' = Append(ai_insights,
                  [session_id |-> req[w].sid,
                   insight_type |-> "session_analysis",
                   timestamp |-> toISOString(clock)])
            /\ Respond(w, 200, <<"response", "insights">>)
       ELSE /\ Respond(w, 200, InsightsUnavailable)
            /\ UNCHANGED ai_insights
    /\ UNCHANGED <<shipVars, clientVars, clock, uuid, budget, projects,
                   shipping_sessions, shipping_events, file_operations,
                   git_operations, realtime_status, kv, wsVars>>

GenerateInsightsSteps(w) ==
    \/ LoadAnalytics(w)
    \/ \E ok \in BOOLEAN : AiRun(w, ok)
    \/ \E ok \in BOOLEAN : InsertInsight(w, ok)

\* --- the platform
\* A store or cache call of a handler rejects: the route's catch answers 500.
AwaitingStore ==
    {"ensureProject", "insertProject", "insertSession", "kvPutSession",
     "insertEvent", "statusRow", "statusKv", "insertFileOperation",
     "insertGitOperation", "selectStart", "updateSession", "kvDelete",
     "metricsQuery", "analyticsQuery", "insightsLoad"}

\* The answer of the catch clause of the route that serves the request.
CatchBody(kind) ==
    <<"error",
      CASE kind = "start" -> "Failed to start session"
        [] kind = "event" -> "Failed to record event"
        [] kind = "fileop" -> "Failed to record file operation"
        [] kind = "gitop" -> "Failed to record git operation"
        [] kind = "complete" -> "Failed to complete session"
        [] kind = "analytics" -> "Failed to get session analytics"
        [] kind = "insights" -> "Failed to generate insights"
        [] OTHER -> "Failed to get project dashboard">>

ThrowRollingBack(w) ==
    /\ req[w].pc \in AwaitingStore
    /\ Respond(w, 500, CatchBody(req[w].kind))
    /\ shipping_events' =
          IF req[w].pc \in {"statusRow", "statusKv"}
          THEN SubSeq(shipping_events, 1, Len(shipping_events) - 1)
          ELSE shipping_events
    /\ UNCHANGED <<shipVars, clientVars, clock, uuid, budget, projects, shipping_sessions,
                   file_operations, git_operations, realtime_status, ai_insights, kv,
                   wsVars>>

\* An awaited store or cache call rejects and the route's catch answers.
Throw(w) ==
    /\ req[w].pc \in AwaitingStore
    /\ Respond(w, 500, CatchBody(req[w].kind))
    /\ UNCHANGED <<shipVars, clientVars, clock, uuid, budget, dbVars, kv, wsVars>>

\* Time passes.
Tick ==
    /\ clock < MaxTicks * TickMs
    /\ clock' = clock + TickMs
    /\ UNCHANGED <<shipVars, clientVars, uuid, budget, req, dbVars, kv, wsVars>>

\* What a call of the agent hands to its caller: `how` is "pending" while
\* the caller awaits it, then "return" or "throw"; `work` is what the wrapped
\* operation of timeOperation / timeAsyncOperation did, `value` what the
\* caller gets.
Ret(call, how, work, value) ==
    [call |-> call, how |-> how, work |-> work, value |-> value]

HourPassesTimingOut ==
    /\ \A w \in DOMAIN req : req[w].pc = "done"
    /\ clock < MaxHours * KvTtlSeconds * 1000
    /\ clock' = clock + KvTtlSeconds * 1000
    /\ kv' = <<>>
    /\ shipping_sessions' = [i \in 1..Len(shipping_sessions) |->
           IF shipping_sessions[i].status = "running"
           THEN [shipping_sessions[i] EXCEPT !.status = "failed"]
           ELSE shipping_sessions[i]]
    /\ UNCHANGED <<shipVars, clientVars, uuid, budget, req, projects,
                   shipping_events, file_operations, git_operations,
                   realtime_status, ai_insights, wsVars>>

\* An hour passes with no request under way: every cache entry, written
\* with expirationTtl 3600, has expired.
HourPasses ==
    /\ \A w \in DOMAIN req : req[w].pc = "done"
    /\ clock < MaxHours * KvTtlSeconds * 1000
    /\ clock' = clock + KvTtlSeconds * 1000
    /\ kv' = <<>>
    /\ UNCHANGED <<shipVars, clientVars, uuid, budget, req, dbVars, wsVars>>

\* ------------------------------------------------- the ship orchestrator
\* MarioShippingOrchestrator of src/mario-ship.js: one node process per ship
\* command, running its five agents in sequence inside the try of ship().
\* execSync and the fs calls are synchronous, so an agent is one step; each
\* of these calls may throw.

\* The constructor's shipStatus.
NoShipStatus ==
    [documentation |-> FALSE, gitCommit |-> FALSE, deployment |-> FALSE,
     analysis |-> FALSE, nextMoves |-> FALSE]

\* No ship command has run yet.
NoOrchestrator ==
    [pc |-> "none", shipStatus |-> NoShipStatus, exitCode |-> Null, run |-> 0]

\* The project directory: .mario-status.json (absent, or the length of its
\* shippingHistory), NextMoves.md, the git work tree (changes: "none",
\* "unstaged" or "staged"; ahead: commits not pushed yet) and what was
\* built and deployed.
EmptyWorkspace ==
    [statusFile |-> Null, nextMoves |-> FALSE, changes |-> "none",
     ahead |-> FALSE, built |-> FALSE, deployed |-> FALSE]

\* The developer changes files of the project between two ship commands.
Work ==
    /\ orchestrator.pc \in {"none", "exited"}
    /\ workspace.changes # "unstaged"
    /\ workspace' = [workspace EXCEPT !.changes = "unstaged"]
    /\ UNCHANGED <<orchestrator, serverVars, wsVars, clientVars>>

\* new MarioShippingOrchestrator(completedWork).ship() up to its first agent.
Ship ==
    /\ orchestrator.pc \in {"none", "exited"}
    /\ orchestrator.run < MaxShips
    /\ orchestrator' = [pc |-> "documentCompletedWork",
                        shipStatus |-> NoShipStatus, exitCode |-> Null,
                        run |-> orchestrator.run + 1]
    /\ UNCHANGED <<workspace, serverVars, wsVars, clientVars>>

\* catch (error) of ship(): the partial status is printed; process.exit(1).
Exit1 == [orchestrator EXCEPT !.pc = "exited", !.exitCode = Some(1)]

\* The agent has set its flag and ship() awaits the next one.
Done(flag, next) ==
    [orchestrator EXCEPT !.shipStatus[flag] = TRUE, !.pc = next]

\* status.shippingHistory.unshift(workLog), and only the last 10 are kept.
Unshift(length) ==
    IF length + 1 > HistoryKept THEN HistoryKept ELSE length + 1

\* documentCompletedWork: reads .mario-status.json if it exists, adds the
\* work log and writes the file, which git may track or ignore.
documentCompletedWork(fail, tracked) ==
    /\ orchestrator.pc = "documentCompletedWork"
    /\ IF (fail = "read" /\ workspace.statusFile # Null) \/ fail = "write"
       THEN /\ orchestrator' = Exit1
            /\ UNCHANGED workspace
       ELSE /\ orchestrator' = Done("documentation", "gitCommitAndPush")
            /\ workspace' = [workspace EXCEPT
                   !.statusFile = Some(Unshift(IF @ = Null THEN 0 ELSE @[1])),
                   !.changes = IF tracked THEN "unstaged" ELSE @]
    /\ UNCHANGED <<serverVars, wsVars, clientVars>>

\* hasGitChanges: git status --porcelain prints something; false when the
\* command fails.
hasGitChanges(statusOk) == statusOk /\ workspace.changes # "none"

\* The git work tree after git add, git commit and git push, the first
\* `done` of which ran.
AfterGit(done) ==
    [workspace EXCEPT
        !.changes = IF done >= 2 THEN "none"
                    ELSE IF done >= 1 THEN "staged" ELSE @,
        !.ahead = IF done >= 3 THEN FALSE ELSE IF done >= 2 THEN TRUE ELSE @]

GitSteps == <<"add", "commit", "push">>

\* gitCommitAndPush: nothing to commit, or git add, git commit and git push
\* in turn; `fail` is the one that throws (0: none), and the catch logs the
\* error and throws it again, into the catch of ship().
gitCommitAndPush(statusOk, fail) ==
    /\ orchestrator.pc = "gitCommitAndPush"
    /\ IF ~hasGitChanges(statusOk)
       THEN /\ orchestrator' = Done("gitCommit", "runDeployment")
            /\ UNCHANGED workspace
       ELSE IF fail = 0
            THEN /\ orchestrator' = Done("gitCommit", "runDeployment")
                 /\ workspace' = AfterGit(Len(GitSteps))
            ELSE /\ orchestrator' = Exit1
                 /\ workspace' = AfterGit(fail - 1)
    /\ UNCHANGED <<serverVars, wsVars, clientVars>>

\* runDeployment: npm run build, then wrangler deploy if worker/wrangler.toml
\* exists; an error is logged and not thrown.
runDeployment(wrangler, fail) ==
    /\ orchestrator.pc = "runDeployment"
    /\ IF fail = "build"
       THEN /\ orchestrator' = [orchestrator EXCEPT !.pc = "analyzeProjectState"]
            /\ UNCHANGED workspace
       ELSE IF wrangler /\ fail = "deploy"
            THEN /\ orchestrator' =
                       [orchestrator EXCEPT !.pc = "analyzeProjectState"]
                 /\ workspace' = [workspace EXCEPT !.built = TRUE]
            ELSE /\ orchestrator' = Done("deployment", "analyzeProjectState")
                 /\ workspace' = [workspace EXCEPT !.built = TRUE,
                                      !.deployed = IF wrangler THEN TRUE ELSE @]
    /\ UNCHANGED <<serverVars, wsVars, clientVars>>

\* analyzeProjectState: assessProjectHealth tries npm run build inside its
\* own try/catch; nothing is thrown.
analyzeProjectState(buildOk) ==
    /\ orchestrator.pc = "analyzeProjectState"
    /\ orchestrator' = Done("analysis", "updateNextMoves")
    /\ workspace' = [workspace EXCEPT !.built = IF buildOk THEN TRUE ELSE @]
    /\ UNCHANGED <<serverVars, wsVars, clientVars>>

\* updateNextMoves writes NextMoves.md; then ship() prints its report and
\* the process ends.
updateNextMoves(ok) ==
    /\ orchestrator.pc = "updateNextMoves"
    /\ IF ok
       THEN /\ orchestrator' = [Done("nextMoves", "exited") EXCEPT
                                   !.exitCode = Some(0)]
            /\ workspace' = [workspace EXCEPT !.nextMoves = TRUE]
       ELSE /\ orchestrator' = Exit1
            /\ UNCHANGED workspace
    /\ UNCHANGED <<serverVars, wsVars, clientVars>>

\* ------------------------------------------------------- the ingestion API
\* The deployed API: empty tables, an empty cache, no Durable Object yet.
ServerInit(workers, requests) ==
    /\ clock = 0
    /\ uuid = 0
    /\ budget = requests
    /\ req = [w \in workers |-> Idle]
    /\ projects = <<>>
    /\ shipping_sessions = <<>>
    /\ shipping_events = <<>>
    /\ file_operations = <<>>
    /\ git_operations = <<>>
    /\ realtime_status = <<>>
    /\ ai_insights = <<>>
    /\ kv = <<>>
    /\ sessions = <<>>
    /\ socket = [k \in Sockets |-> NoSocket]
    /\ received = [k \in Sockets |-> <<>>]
    /\ nmsg = <<>>
    /\ agent = [isConnected |-> FALSE, sessionId |-> Null, eventQueue |-> <<>>]
    /\ probe = "pending"
    /\ driver = "ready"
    /\ flushes = {}
    /\ posted = <<>>
    /\ nrec = 0
    /\ returned = Ret("constructor", "return", "none", "agent")
    /\ orchestrator = NoOrchestrator
    /\ workspace = EmptyWorkspace

StartSessionSteps(w) ==
    \/ EnsureProjectSelect(w)
    \/ EnsureProjectInsert(w)
    \/ InsertSession(w)
    \/ KvPutSession(w)
    \/ BroadcastStarted(w)

RecordEventSteps(w) ==
    \/ InsertEvent(w)
    \/ InsertStatusRow(w)
    \/ KvPutStatus(w)

CompleteSessionSteps(w) ==
    \/ SelectSessionStart(w)
    \/ UpdateSessionRow(w)
    \/ KvDeleteSession(w)
    \/ BroadcastCompleted(w)

\* Spec: sessions from start to completion, on two workers, as time passes.
Init == ServerInit(Workers, MaxReqs)

Next ==
    \/ Tick
    \/ \E w \in DOMAIN req :
        \/ BeginStartSession(w, "p1")
        \/ StartSessionSteps(w)
        \/ \E id \in KnownIds \cup {UnknownId}, st \in CompleteStatusInputs :
              BeginCompleteSession(w, id, st)
        \/ CompleteSessionSteps(w)
        \/ Throw(w)

Spec == Init /\ [][Next]_vars

\* SpecIngest: one worker takes telemetry for the sessions it started.
InitIngest == ServerInit({"w1"}, MaxIngestReqs)

NextIngest ==
    \E w \in DOMAIN req :
        \/ BeginStartSession(w, "p1")
        \/ StartSessionSteps(w)
        \/ \E id \in KnownIds \cup {UnknownId}, t \in EventTypeInputs, ok \in BOOLEAN :
              BeginRecordEvent(w, id, t, ok, Null)
        \/ RecordEventSteps(w)
        \/ \E id \in KnownIds \cup {UnknownId}, t \in FileOperationInputs :
              BeginRecordFileOperation(w, id, t)
        \/ InsertFileOperation(w)
        \/ \E id \in KnownIds \cup {UnknownId}, t \in GitOperationInputs :
              BeginRecordGitOperation(w, id, t)
        \/ InsertGitOperation(w)
        \/ \E id \in KnownIds \cup {UnknownId}, st \in CompleteStatusInputs :
              BeginCompleteSession(w, id, st)
        \/ CompleteSessionSteps(w)
        \/ Throw(w)

SpecIngest == InitIngest /\ [][NextIngest]_vars

\* SpecMetrics: the dashboard reads the metrics of projects while their
\* sessions start and complete.
InitMetrics == ServerInit({"w1"}, MaxMetricsReqs)

NextMetrics ==
    \/ Tick
    \/ \E w \in DOMAIN req :
        \/ \E p \in ProjectIds : BeginStartSession(w, p)
        \/ StartSessionSteps(w)
        \/ \E id \in KnownIds, st \in CompleteStatusInputs :
              BeginCompleteSession(w, id, st)
        \/ CompleteSessionSteps(w)
        \/ \E p \in ProjectIds : BeginGetProjectMetrics(w, p)
        \/ GetProjectMetrics(w)

SpecMetrics == InitMetrics /\ [][NextMetrics]_vars

\* ------------------------------------------------------ the client agent
\* The agent of src/unnamed/part_003 runs on one JavaScript thread: a call
\* runs until its first await that has to wait, and a pending fetch settles
\* in a later step.  The workflow that drives the agent makes its next call
\* once the call it awaits has returned; a call it does not await
\* (timeOperation's recordEvent) goes on in the background.

\* initializeConnection, called and not awaited by the constructor: the
\* health probe answers ok, or it answers an error status, or fetch rejects.
ProbeSettles(outcome) ==
    /\ probe = "pending"
    /\ probe' = "done"
    /\ agent' = [agent EXCEPT !.isConnected =
                    IF outcome = "ok" THEN TRUE
                    ELSE IF outcome = "rejected" THEN FALSE ELSE @]
    /\ UNCHANGED <<driver, flushes, posted, nrec, returned, serverVars, wsVars, shipVars>>

ConnectedAlways == TRUE

\* this.isConnected, as the guards of the calls read it
Connected == agent.isConnected

\* if (!this.isConnected || !this.sessionId) return;
Tracking == Connected /\ agent.sessionId # Null

PostedCount(op) == Cardinality({i \in 1..Len(posted) : posted[i].op = op})

SettleRaising(r, ok) ==
    IF ok
    THEN [r EXCEPT !.how = IF r.work = "error" THEN "throw" ELSE "return"]
    ELSE [r EXCEPT !.how = "throw", !.value = "send failed"]

\* The awaited send settles, fulfilled (ok) or rejected: the try/catch around
\* the fetch swallows a rejection, and the call hands back what it has,
\* rethrowing only the error of the wrapped operation.
Settle(r, ok) ==
    [r EXCEPT !.how = IF r.work = "error" THEN "throw" ELSE "return"]

\* startSession(description): without a connection it returns null; else
\* POST /api/sessions is sent and awaited.
StartSession ==
    /\ driver = "ready"
    /\ IF ~Connected
       THEN /\ returned' = Ret("startSession", "return", "none", "null")
            /\ UNCHANGED <<driver, posted>>
       ELSE /\ PostedCount("session") < MaxStarts
            /\ nrec < MaxStarts
            /\ posted' = Append(posted,
                   [op |-> "session", n |-> 0, immediate |-> FALSE,
                    sessionId |-> PostedCount("session") + 1])
            /\ driver' = "startSession"
            /\ returned' = Ret("startSession", "pending", "none", "null")
    /\ UNCHANGED <<agent, probe, flushes, nrec, serverVars, wsVars, shipVars>>

\* The answer: with response.ok the returned id is kept and handed back,
\* else (an error status, or a rejection that is caught) null is.
StartSessionSettles(ok) ==
    /\ driver = "startSession"
    /\ driver' = "ready"
    /\ agent' = [agent EXCEPT !.sessionId =
                    IF ok THEN Some(PostedCount("session")) ELSE @]
    /\ returned' = [returned EXCEPT !.how = "return",
                       !.value = IF ok THEN "sessionId" ELSE "null"]
    /\ UNCHANGED <<probe, flushes, posted, nrec, serverVars, wsVars, shipVars>>

ShouldFlushAbove(eventQueue) == Len(eventQueue) > FlushThreshold

\* if (this.eventQueue.length >= 10)
ShouldFlush(eventQueue) == Len(eventQueue) >= FlushThreshold

\* flushEvents up to its first await: the queue is copied and emptied and
\* the first copied event is sent.  `owner` is who waits for the loop.
StartFlush(queue, owner) ==
    /\ flushes' = flushes \cup {[cur |-> Head(queue).n, rest |-> Tail(queue),
                                  owner |-> owner]}
    /\ posted' = Append(posted, [op |-> "event", n |-> Head(queue).n,
                                 immediate |-> FALSE,
                                 sessionId |-> Head(queue).sessionId])

\* recordEvent(eventType, options), options.immediate not set, while the
\* agent tracks a session.  The driver awaits the call (awaited) or not (the
\* call made by timeOperation).
RecordEvent(awaited) ==
    /\ Tracking
    /\ nrec < MaxRecords
    /\ nrec' = nrec + 1
    /\ LET queue == Append(agent.eventQueue,
                           [n |-> nrec + 1, sessionId |-> agent.sessionId[1]])
       IN IF ShouldFlush(queue)
          THEN /\ agent' = [agent EXCEPT !.eventQueue = <<>>]
               /\ StartFlush(queue, IF awaited THEN "recordEvent" ELSE "nobody")
               /\ driver' = IF awaited THEN "recordEvent" ELSE "ready"
          ELSE /\ agent' = [agent EXCEPT !.eventQueue = queue]
               /\ UNCHANGED <<driver, flushes, posted>>
    /\ UNCHANGED <<probe, serverVars, wsVars, shipVars>>

\* A call that records nothing.
NothingRecorded ==
    UNCHANGED <<agent, probe, driver, flushes, posted, nrec, serverVars, wsVars, shipVars>>

\* What an awaited call hands back: at once, or when the flush it started
\* has ended.
Awaited(r) == IF driver' = "ready" THEN Settle(r, TRUE) ELSE r

\* await recordEvent(eventType) called by the workflow.
CallRecordEvent ==
    /\ driver = "ready"
    /\ IF Tracking
       THEN /\ RecordEvent(TRUE)
            /\ returned' = Awaited(Ret("recordEvent", "pending", "none", "event"))
       ELSE /\ NothingRecorded
            /\ returned' = Ret("recordEvent", "return", "none", "undefined")

\* timeOperation(name, operation): the operation returns its result or
\* throws its error (work); recordEvent is called and not awaited, and the
\* result is returned or the error thrown again.  Without a connection:
\* return operation().
TimeOperation(work) ==
    /\ driver = "ready"
    /\ IF Tracking THEN RecordEvent(FALSE) ELSE NothingRecorded
    /\ returned' = Settle(Ret("timeOperation", "pending", work, work), TRUE)

\* timeAsyncOperation(name, operation): as timeOperation, with recordEvent
\* awaited before the result is returned or the error thrown again.
TimeAsyncOperation(work) ==
    /\ driver = "ready"
    /\ IF Tracking THEN RecordEvent(TRUE) ELSE NothingRecorded
    /\ returned' = Awaited(Ret("timeAsyncOperation", "pending", work, work))

\* recordEvent(eventType, {immediate: true}): await this.sendEvent(event)
RecordEventImmediate ==
    /\ driver = "ready"
    /\ Tracking
    /\ nrec < MaxImmediate
    /\ nrec' = nrec + 1
    /\ posted' = Append(posted, [op |-> "event", n |-> nrec + 1,
                                 immediate |-> TRUE,
                                 sessionId |-> agent.sessionId[1]])
    /\ driver' = "sendEvent"
    /\ returned' = Ret("recordEvent", "pending", "none", "event")
    /\ UNCHANGED <<agent, probe, flushes, serverVars, wsVars, shipVars>>

\* sendEvent's fetch settles; an error is logged and swallowed.
ImmediateSettles(ok) ==
    /\ driver = "sendEvent"
    /\ driver' = "ready"
    /\ returned' = Settle(returned, ok)
    /\ UNCHANGED <<agent, probe, flushes, posted, nrec, serverVars, wsVars, shipVars>>

OperationCalls == {"recordFileOperation", "recordGitOperation", "generateInsights"}

\* recordFileOperation, recordGitOperation, generateInsights: without a
\* tracked session they return at once (generateInsights returns null, the
\* others nothing); else one request is sent and awaited.
Operation(call) ==
    /\ driver = "ready"
    /\ IF ~Tracking
       THEN /\ returned' = Ret(call, "return", "none",
                   IF call = "generateInsights" THEN "null" ELSE "undefined")
            /\ UNCHANGED <<driver, posted>>
       ELSE /\ Cardinality({i \in 1..Len(posted) :
                            posted[i].op \in OperationCalls}) < MaxOperations
            /\ posted' = Append(posted, [op |-> call, n |-> 0, immediate |-> FALSE,
                                         sessionId |-> agent.sessionId[1]])
            /\ driver' = "operation"
            /\ returned' = Ret(call, "pending", "none", "operation")
    /\ UNCHANGED <<agent, probe, flushes, nrec, serverVars, wsVars, shipVars>>

\* Its fetch settles; an error is logged and swallowed.
OperationSettles(ok) ==
    /\ driver = "operation"
    /\ driver' = "ready"
    /\ returned' = Settle(returned, ok)
    /\ UNCHANGED <<agent, probe, flushes, posted, nrec, serverVars, wsVars, shipVars>>

\* completeSession's PUT /api/sessions/:id/complete is sent.
SendComplete ==
    /\ posted' = Append(posted, [op |-> "complete", n |-> 0, immediate |-> FALSE,
                                 sessionId |-> agent.sessionId[1]])
    /\ driver' = "completeSession"

FlushSettlesRetrying(f, ok) ==
    /\ f \in flushes
    /\ IF ~ok
       THEN /\ posted' = Append(posted, [op |-> "event", n |-> f.cur,
                                         immediate |-> FALSE,
                                         sessionId |-> PostedCount("session")])
            /\ UNCHANGED <<flushes, driver, returned>>
       ELSE IF f.rest # <<>>
       THEN /\ flushes' = (flushes \ {f}) \cup {[f EXCEPT !.cur = Head(f.rest).n,
                                                       !.rest = Tail(@)]}
            /\ posted' = Append(posted, [op |-> "event", n |-> Head(f.rest).n,
                                         immediate |-> FALSE,
                                         sessionId |-> Head(f.rest).sessionId])
            /\ UNCHANGED <<driver, returned>>
       ELSE /\ flushes' = flushes \ {f}
            /\ IF f.owner = "completeSession"
               THEN SendComplete /\ UNCHANGED returned
               ELSE IF f.owner = "recordEvent"
                    THEN /\ driver' = "ready"
                         /\ returned' = Settle(returned, ok)
                         /\ UNCHANGED posted
                    ELSE UNCHANGED <<driver, returned, posted>>
    /\ UNCHANGED <<agent, probe, nrec, serverVars, wsVars, shipVars>>

\* The send a flushEvents loop awaits settles (an error is swallowed): the
\* loop sends its next event, or ends and whoever awaits it goes on.
FlushSettles(f, ok) ==
    /\ f \in flushes
    /\ IF f.rest # <<>>
       THEN /\ flushes' = (flushes \ {f}) \cup {[f EXCEPT !.cur = Head(f.rest).n,
                                                       !.rest = Tail(@)]}
            /\ posted' = Append(posted, [op |-> "event", n |-> Head(f.rest).n,
                                         immediate |-> FALSE,
                                         sessionId |-> Head(f.rest).sessionId])
            /\ UNCHANGED <<driver, returned>>
       ELSE /\ flushes' = flushes \ {f}
            /\ IF f.owner = "completeSession"
               THEN SendComplete /\ UNCHANGED returned
               ELSE IF f.owner = "recordEvent"
                    THEN /\ driver' = "ready"
                         /\ returned' = Settle(returned, ok)
                         /\ UNCHANGED posted
                    ELSE UNCHANGED <<driver, returned, posted>>
    /\ UNCHANGED <<agent, probe, nrec, serverVars, wsVars, shipVars>>

\* completeSession(status, metadata): without a tracked session it returns
\* at once; else await this.flushEvents(), then the PUT.
CompleteSession ==
    /\ driver = "ready"
    /\ IF ~Tracking
       THEN /\ returned' = Ret("completeSession", "return", "none", "undefined")
            /\ UNCHANGED <<agent, driver, flushes, posted>>
       ELSE /\ returned' = Ret("completeSession", "pending", "none", "undefined")
            /\ IF agent.eventQueue # <<>>
               THEN /\ agent' = [agent EXCEPT !.eventQueue = <<>>]
                    /\ StartFlush(agent.eventQueue, "completeSession")
                    /\ driver' = "finalFlush"
               ELSE /\ SendComplete
                    /\ UNCHANGED <<agent, flushes>>
    /\ UNCHANGED <<probe, nrec, serverVars, wsVars, shipVars>>

CompleteSettlesKeeping(ok) ==
    /\ driver = "completeSession"
    /\ driver' = "ready"
    /\ agent' = [agent EXCEPT !.sessionId = IF ok THEN Null ELSE @]
    /\ returned' = Settle(returned, ok)
    /\ UNCHANGED <<probe, flushes, posted, nrec, serverVars, wsVars, shipVars>>

\* The PUT settles (an error is swallowed); this.sessionId = null.
CompleteSettles(ok) ==
    /\ driver = "completeSession"
    /\ driver' = "ready"
    /\ agent' = [agent EXCEPT !.sessionId = Null]
    /\ returned' = Settle(returned, ok)
    /\ UNCHANGED <<probe, flushes, posted, nrec, serverVars, wsVars, shipVars>>

Works == {"result", "error"}

\* SpecClient: one agent from its construction on, recording events.
NextClient ==
    \/ \E outcome \in {"ok", "not ok", "rejected"} : ProbeSettles(outcome)
    \/ StartSession
    \/ \E ok \in BOOLEAN : StartSessionSettles(ok)
    \/ CallRecordEvent
    \/ \E work \in Works : TimeOperation(work)
    \/ \E work \in Works : TimeAsyncOperation(work)
    \/ RecordEventImmediate
    \/ \E ok \in BOOLEAN : ImmediateSettles(ok)
    \/ \E f \in flushes, ok \in BOOLEAN : FlushSettles(f, ok)
    \/ CompleteSession
    \/ \E ok \in BOOLEAN : CompleteSettles(ok)

InitClient == ServerInit({"w1"}, 0)

SpecClient == InitClient /\ [][NextClient]_vars

\* SpecAgent: one agent from its construction on, every call the workflow
\* makes, over a few events.
NextAgent ==
    \/ \E outcome \in {"ok", "not ok", "rejected"} : ProbeSettles(outcome)
    \/ StartSession
    \/ \E ok \in BOOLEAN : StartSessionSettles(ok)
    \/ nrec < MaxAgentRecords /\ CallRecordEvent
    \/ \E work \in Works : nrec < MaxAgentRecords /\ TimeOperation(work)
    \/ \E work \in Works : nrec < MaxAgentRecords /\ TimeAsyncOperation(work)
    \/ nrec < MaxAgentRecords /\ RecordEventImmediate
    \/ \E ok \in BOOLEAN : ImmediateSettles(ok)
    \/ \E call \in OperationCalls : Operation(call)
    \/ \E ok \in BOOLEAN : OperationSettles(ok)
    \/ \E f \in flushes, ok \in BOOLEAN : FlushSettles(f, ok)
    \/ CompleteSession
    \/ \E ok \in BOOLEAN : CompleteSettles(ok)

InitAgent == ServerInit({"w1"}, 0)

SpecAgent == InitAgent /\ [][NextAgent]_vars

\* SpecWs: subscribers come and go on the channels of two sessions while
\* updates of these sessions are pushed.
SessionNames == { <<"uuid", 1>>, <<"uuid", 2>> }
MessageTypes == {"session_started", "session_completed"}

RECURSIVE SumOver(_, _)
SumOver(f, dom) ==
    IF dom = {} THEN 0
    ELSE LET x == CHOOSE y \in dom : TRUE IN f[x] + SumOver(f, dom \ {x})

InitWs == ServerInit({"w1"}, 0)

NextWs ==
    \/ \E k \in Sockets, name \in SessionNames : Upgrade(k, name)
    \/ \E k \in Sockets : PeerGone(k)
    \/ \E k \in Sockets : OnClose(k)
    \/ \E name \in SessionNames, t \in MessageTypes :
          /\ SumOver(nmsg, DOMAIN nmsg) < MaxBroadcasts
          /\ broadcastSessionUpdate(name,
                 [type |-> t, sessionId |-> name, n |-> 0])
          /\ UNCHANGED <<serverVars, clientVars, shipVars>>

SpecWs == InitWs /\ [][NextWs]_vars

\* SpecRace: two workers record the events of the sessions they started.
InitRace == ServerInit(Workers, MaxRaceReqs)

NextRace ==
    \E w \in DOMAIN req :
        \/ BeginStartSession(w, "p1")
        \/ StartSessionSteps(w)
        \/ \E id \in KnownIds, t \in EventTypeInputs, ok \in BOOLEAN :
              BeginRecordEvent(w, id, t, ok, Null)
        \/ RecordEventSteps(w)

SpecRace == InitRace /\ [][NextRace]_vars

\* SpecHistory: the history of a session is read while its events, which
\* may carry the timestamp the client gave them, and its git operations
\* are recorded.
ClientTimestampInputs == {Null, Some(toISOString(100)), Some(toISOString(500))}

InitHistory == ServerInit({"w1"}, MaxHistoryReqs)

NextHistory ==
    \/ Tick
    \/ \E w \in DOMAIN req :
        \/ BeginStartSession(w, "p1")
        \/ StartSessionSteps(w)
        \/ \E id \in KnownIds, ts \in ClientTimestampInputs :
              BeginRecordEvent(w, id, <<"git", "commit">>, TRUE, ts)
        \/ RecordEventSteps(w)
        \/ \E id \in KnownIds : BeginRecordGitOperation(w, id, <<"commit">>)
        \/ InsertGitOperation(w)
        \/ \E id \in KnownIds \cup {UnknownId} : BeginGetSessionAnalytics(w, id)
        \/ GetSessionAnalytics(w)

SpecHistory == InitHistory /\ [][NextHistory]_vars

\* SpecLive: subscribers attach to the channel of a session while the API
\* starts it, records its events and completes it.
InitLive == ServerInit({"w1"}, MaxLiveReqs)

NextLive ==
    \/ \E k \in Sockets, id \in KnownIds : Upgrade(k, id)
    \/ \E w \in DOMAIN req :
        \/ BeginStartSession(w, "p1")
        \/ StartSessionSteps(w)
        \/ \E id \in KnownIds, t \in EventTypeInputs, ok \in BOOLEAN :
              BeginRecordEvent(w, id, t, ok, Null)
        \/ RecordEventSteps(w)
        \/ \E id \in KnownIds, st \in CompleteStatusInputs :
              BeginCompleteSession(w, id, st)
        \/ CompleteSessionSteps(w)

SpecLive == InitLive /\ [][NextLive]_vars

\* SpecLifecycle: sessions are started and completed, with whatever status
\* the body of the PUT carries, for ids that exist or not, as time passes
\* and while a subscriber listens.
LifecycleStatusInputs == {"completed", "partial", "cancelled"}

InitLifecycle == ServerInit({"w1"}, MaxLifecycleReqs)

NextLifecycle ==
    \/ Tick
    \/ \E id \in KnownIds \cup {UnknownId} : Upgrade("k1", id)
    \/ \E w \in DOMAIN req :
        \/ BeginStartSession(w, "p1")
        \/ StartSessionSteps(w)
        \/ \E id \in KnownIds \cup {UnknownId}, st \in LifecycleStatusInputs :
              BeginCompleteSession(w, id, st)
        \/ CompleteSessionSteps(w)
        \/ Throw(w)

SpecLifecycle == InitLifecycle /\ [][NextLifecycle]_vars

\* SpecFrame: everything but completion that happens around a session:
\* telemetry, insights, a subscriber that comes and goes, cache expiry; and
\* completion.
InitFrame == ServerInit({"w1"}, MaxFrameReqs)

NextFrame ==
    \/ HourPasses
    \/ \E id \in KnownIds : Upgrade("k1", id)
    \/ PeerGone("k1")
    \/ OnClose("k1")
    \/ \E w \in DOMAIN req :
        \/ BeginStartSession(w, "p1")
        \/ StartSessionSteps(w)
        \/ \E id \in KnownIds, ok \in BOOLEAN :
              BeginRecordEvent(w, id, <<"build", "end">>, ok, Null)
        \/ RecordEventSteps(w)
        \/ \E id \in KnownIds : BeginRecordFileOperation(w, id, <<"write">>)
        \/ InsertFileOperation(w)
        \/ \E id \in KnownIds : BeginRecordGitOperation(w, id, <<"commit">>)
        \/ InsertGitOperation(w)
        \/ \E id \in KnownIds : BeginGenerateInsights(w, id)
        \/ GenerateInsightsSteps(w)
        \/ \E id \in KnownIds : BeginCompleteSession(w, id, "failed")
        \/ CompleteSessionSteps(w)
        \/ Throw(w)

SpecFrame == InitFrame /\ [][NextFrame]_vars

\* SpecInsights: insights are asked for sessions that exist or not, with
\* or without events.
InitInsights == ServerInit({"w1"}, MaxInsightReqs)

NextInsights ==
    \E w \in DOMAIN req :
        \/ BeginStartSession(w, "p1")
        \/ StartSessionSteps(w)
        \/ \E id \in KnownIds :
              BeginRecordEvent(w, id, <<"git", "commit">>, TRUE, Null)
        \/ RecordEventSteps(w)
        \/ \E id \in KnownIds \cup {UnknownId} : BeginGenerateInsights(w, id)
        \/ GenerateInsightsSteps(w)
        \/ Throw(w)

SpecInsights == InitInsights /\ [][NextInsights]_vars

\* SpecStatus: events of every type of the schema, and of types outside it,
\* successful or not, are recorded for a session.
InitStatus == ServerInit({"w1"}, MaxStatusReqs)

NextStatus ==
    \E w \in DOMAIN req :
        \/ BeginStartSession(w, "p1")
        \/ StartSessionSteps(w)
        \/ \E id \in KnownIds, t \in EventTypeEnum \cup EventTypeInputs,
              ok \in BOOLEAN : BeginRecordEvent(w, id, t, ok, Null)
        \/ RecordEventSteps(w)

SpecStatus == InitStatus /\ [][NextStatus]_vars

\* SpecShip: the developer works and runs the ship command, whose file,
\* git, build and deploy commands succeed or throw.
InitShip == ServerInit({"w1"}, 0)

NextShip ==
    \/ Work
    \/ Ship
    \/ \E fail \in {"none", "read", "write"}, tracked \in BOOLEAN :
          documentCompletedWork(fail, tracked)
    \/ \E statusOk \in BOOLEAN, fail \in 0..Len(GitSteps) :
          gitCommitAndPush(statusOk, fail)
    \/ \E wrangler \in BOOLEAN, fail \in {"none", "build", "deploy"} :
          runDeployment(wrangler, fail)
    \/ \E buildOk \in BOOLEAN : analyzeProjectState(buildOk)
    \/ \E ok \in BOOLEAN : updateNextMoves(ok)

SpecShip == InitShip /\ [][NextShip]_vars

\* ================================================================== claims

\* C1: every session that completeSession has been applied to (its end
\* timestamp is set) has an end timestamp at or after its start timestamp,
\* and its stored total duration is exactly end minus start, in milliseconds.
C1_CompletedDuration ==
    \A i \in 1..Len(shipping_sessions) :
        LET row == shipping_sessions[i]
        IN row.session_end # Null =>
              /\ getTime(row.session_end) >= getTime(row.session_start)
              /\ row.total_duration_ms =
                    Some(getTime(row.session_end) - getTime(row.session_start))

\* A session completed some time after it started.
C1_Witness ==
    \E i \in 1..Len(shipping_sessions) :
        /\ shipping_sessions[i].session_end # Null
        /\ shipping_sessions[i].status \in CompleteStatusInputs
        /\ getTime(shipping_sessions[i].session_end)
              > getTime(shipping_sessions[i].session_start)

\* C2 (as claimed): once completeSession has returned for a session, the
\* cache holds neither the session record written at start nor the
\* RealtimeStatus written by the recorded events.
C2_CacheEmptyAfterComplete ==
    \A w \in DOMAIN req :
        (req[w].kind = "complete" /\ req[w].pc = "done" /\ req[w].resp.code = 200)
            => /\ KvGet(sessionKey(req[w].sid)) = Null
               /\ KvGet(statusKey(req[w].sid)) = Null

\* The numbers of the buffered (non-immediate) events sent so far, in the
\* order of their sending.
RECURSIVE SentBuffered(_)
SentBuffered(log) ==
    IF log = <<>> THEN <<>>
    ELSE IF Head(log).op = "event" /\ ~Head(log).immediate
         THEN <<Head(log).n>> \o SentBuffered(Tail(log))
         ELSE SentBuffered(Tail(log))

\* How many non-immediate events have been recorded.
Buffered ==
    nrec - Cardinality({i \in 1..Len(posted) : posted[i].immediate})

Increasing(ns) == \A i, j \in 1..Len(ns) : i < j => ns[i] < ns[j]

\* completeSession has not been called since the agent was constructed.
NotCompleting == driver # "finalFlush" /\ PostedCount("complete") = 0

\* C3: with a session open and fewer than ten non-immediate events
\* recorded, no buffered event has been sent and all of them wait in the
\* buffer; the step that records the tenth empties the buffer and starts
\* sending with the first buffered event; and once that flush has ended
\* exactly the first ten buffered events have been sent, in buffered order.
C3_TenthRecordFlushes ==
    [][/\ (NotCompleting' /\ Buffered' < FlushThreshold)
            => /\ SentBuffered(posted') = <<>>
               /\ flushes' = {}
               /\ Len(agent'.eventQueue) = Buffered'
       /\ (NotCompleting /\ Buffered = FlushThreshold - 1
                         /\ Buffered' = FlushThreshold)
            => /\ agent'.eventQueue = <<>>
               /\ \E f \in flushes' :
                     /\ flushes' = {f}
                     /\ f.cur = agent.eventQueue[1].n
                     /\ Len(f.rest) = FlushThreshold - 1
               /\ SentBuffered(posted') = <<agent.eventQueue[1].n>>
       /\ (NotCompleting' /\ Buffered' >= FlushThreshold /\ flushes' = {})
            => /\ Len(SentBuffered(posted')) = FlushThreshold
               /\ Increasing(SentBuffered(posted'))
               /\ \A i \in 1..Len(agent'.eventQueue) :
                     agent'.eventQueue[i].n
                        > SentBuffered(posted')[FlushThreshold]]_vars

\* Ten events were recorded, the flush has ended, and all ten were sent.
C3_Witness ==
    /\ NotCompleting
    /\ Buffered = FlushThreshold
    /\ flushes = {}
    /\ agent.eventQueue = <<>>
    /\ Len(SentBuffered(posted)) = FlushThreshold

\* C4 (as claimed): whatever record calls were made and whichever flushes
\* they started, at most one flush is sending at any time, and the buffered
\* events are sent in the order in which they were buffered.
C4_SentInBufferedOrder ==
    /\ Cardinality(flushes) <= 1
    /\ Increasing(SentBuffered(posted))

\* C5: a telemetry item whose eventType or operationType is outside the
\* enumerated set is answered with the validation failure as soon as it is
\* taken, and that step changes no table, no cache entry and nothing of the
\* broadcaster.
EnumOf(kind) ==
    IF kind = "event" THEN EventTypeEnum
    ELSE IF kind = "fileop" THEN FileOperationEnum ELSE GitOperationEnum

C5_InvalidTypeRejected ==
    [][\A w \in DOMAIN req :
          (/\ req'[w] # req[w]
           /\ req'[w].kind \in {"event", "fileop", "gitop"}
           /\ req'[w].type \notin EnumOf(req'[w].kind))
          => /\ req'[w].pc = "done"
             /\ req'[w].resp.code = 400
             /\ UNCHANGED <<dbVars, kv, wsVars>>]_vars

\* An event of an unknown type was rejected for a session that exists.
C5_Witness ==
    \E w \in DOMAIN req :
        /\ req[w].kind = "event"
        /\ req[w].type \notin EventTypeEnum
        /\ req[w].resp.code = 400
        /\ req[w].sid \in KnownIds

LogRows == Range(shipping_events) \cup Range(file_operations)
              \cup Range(git_operations) \cup Range(realtime_status)

C7_ChannelIsolation ==
    \A k \in Sockets :
        \A i \in 1..Len(received[k]) :
            received[k][i].sessionId = socket[k].sessionId

\* Subscribers of two sessions have each been sent a message.
C7_Witness ==
    \E j, k \in Sockets :
        /\ socket[j].sessionId # socket[k].sessionId
        /\ received[j] # <<>>
        /\ received[k] # <<>>

\* C8: when an object answers a broadcast, every subscriber in its set at
\* that moment whose send succeeds is sent the message and stays in the
\* set, and every subscriber whose send throws is removed from the set,
\* wherever it comes in the iteration.
C8_BroadcastReachesAll ==
    [][\A id \in DOMAIN nmsg' :
          nmsg'[id] = Broadcasts(id) + 1 =>
             \A k \in Range(SessionsOf(id)) :
                IF socket[k].state = "open"
                THEN /\ Len(received'[k]) = Len(received[k]) + 1
                     /\ SubSeq(received'[k], 1, Len(received[k])) = received[k]
                     /\ received'[k][Len(received'[k])].n = nmsg'[id]
                     /\ k \in Range(sessions'[id])
                ELSE /\ received'[k] = received[k]
                     /\ k \notin Range(sessions'[id])]_vars

\* A broadcast dropped a subscriber whose peer was gone, and reached one
\* that joined before it and one that joined after it.
C8_Witness ==
    \E a, b, c \in Sockets :
        LET id == idFromName(socket[b].sessionId)
        IN /\ socket[a].sessionId = socket[b].sessionId
           /\ socket[c].sessionId = socket[b].sessionId
           /\ socket[a].joined < socket[b].joined
           /\ socket[b].joined < socket[c].joined
           /\ socket[b].state = "broken"
           /\ id \in DOMAIN sessions
           /\ b \notin Range(sessions[id])
           /\ a \in Range(sessions[id])
           /\ c \in Range(sessions[id])
           /\ received[a] # <<>>
           /\ received[c] # <<>>
           /\ Len(received[a]) = Len(received[c])

\* C9: a broadcast answered by the object of a session whose set holds no
\* subscriber sends nothing to anyone and leaves that set empty.
C9_EmptyChannelNoOp ==
    [][\A name \in SessionNames :
          LET id == idFromName(name)
          IN (/\ id \in DOMAIN nmsg'
              /\ nmsg'[id] = Broadcasts(id) + 1
              /\ (id \notin DOMAIN sessions \/ sessions[id] = <<>>))
             => /\ received' = received
                /\ socket' = socket
                /\ sessions'[id] = <<>>]_vars

\* The channel of a session nobody subscribed to was broadcast to while
\* another session had a subscriber.
C9_Witness ==
    \E name \in SessionNames :
        /\ Broadcasts(idFromName(name)) > 0
        /\ \A k \in Sockets : socket[k].sessionId # name
        /\ \E k \in Sockets : socket[k].state = "open"

\* C10 (as claimed): getProjectMetrics answered for a project that has no
\* session reports the success rate 100.
C10_ZeroSessionsRate100 ==
    \A w \in DOMAIN req :
        (/\ req[w].kind = "metrics"
         /\ req[w].pc = "done"
         /\ req[w].resp.code = 200
         /\ req[w].resp.body[2] = 0)
            => req[w].resp.body[4] = Num(100, 1)

\* C11 (as claimed): in the run that starts a session for p1, records the
\* one successful event git_commit through POST /events and completes the
\* session as completed, the session row ends completed, exactly one log
\* row about git exists for the session, the last RealtimeStatus written has
\* currentStep git_commit and stepProgress 50, and the cache holds no
\* RealtimeStatus for the session.
C11_Scenario(w) ==
    /\ req[w].kind = "complete"
    /\ req[w].pc = "done"
    /\ req[w].resp.code = 200
    /\ req[w].resp.body[4] = "completed"
    /\ Len(shipping_sessions) = 1
    /\ shipping_sessions[1].id = req[w].sid
    /\ shipping_sessions[1].project_id = "p1"
    /\ Len(shipping_events) = 1
    /\ shipping_events[1].session_id = req[w].sid
    /\ shipping_events[1].event_type = <<"git", "commit">>
    /\ shipping_events[1].success
    /\ file_operations = <<>>
    /\ Len(realtime_status) = 1

C11_GitCommitScenario ==
    \A w \in DOMAIN req :
        C11_Scenario(w) =>
            /\ shipping_sessions[1].status = "completed"
            /\ Len(SelectWhere(shipping_events, "session_id", req[w].sid))
                  + Len(SelectWhere(git_operations, "session_id", req[w].sid)) = 1
            /\ realtime_status[1].current_step = <<"git", "commit">>
            /\ realtime_status[1].step_progress = 50
            /\ KvGet(statusKey(req[w].sid)) = Null

\* The request of worker w has inserted its event row and is writing the
\* RealtimeStatus projection (the durable status row or the cache copy).
WritingProjection(w) ==
    req[w].kind = "event" /\ req[w].pc \in {"statusRow", "statusKv"}

\* C12: no step removes or changes a row of the event log, and the step in
\* which the projection write of an event fails leaves the event log as it
\* was, with the row that event inserted still in it.
C12_ProjectionFailureKeepsEvent ==
    [][/\ Len(shipping_events') >= Len(shipping_events)
       /\ SubSeq(shipping_events', 1, Len(shipping_events)) = shipping_events
       /\ \A w \in DOMAIN req :
             (WritingProjection(w) /\ req'[w].pc = "done"
                                   /\ req'[w].resp.code = 500)
                => /\ shipping_events' = shipping_events
                   /\ \E i \in 1..Len(shipping_events') :
                         /\ shipping_events'[i].session_id = req[w].sid
                         /\ shipping_events'[i].event_type = req[w].type]_vars

\* The first event of a session was answered with a failure, its row is in
\* the event log, and no status row was written.
C12_Witness ==
    \E w \in DOMAIN req :
        /\ req[w].kind = "event"
        /\ req[w].pc = "done"
        /\ req[w].resp.code = 500
        /\ Len(shipping_events) = 1
        /\ shipping_events[1].session_id = req[w].sid
        /\ realtime_status = <<>>

\* C13 (as claimed): a request whose event row is inserted and whose
\* projection write then ends, failed or not, is answered with success.
C13_ProjectionFailureStillSucceeds ==
    [][\A w \in DOMAIN req :
          (WritingProjection(w) /\ req'[w].pc = "done")
             => req'[w].resp.code = 201]_vars

\* C14 (as claimed): the step that ends a successful recordEvent, after its
\* projection update, pushes a message for the event's session to every
\* open subscriber attached to the channel of that session.
C14_EventPushed ==
    [][\A w \in DOMAIN req :
          (/\ req[w].kind = "event"
           /\ req[w].pc = "statusKv"
           /\ req'[w].pc = "done"
           /\ req'[w].resp.code = 201)
          => \A k \in Range(SessionsOf(idFromName(req[w].sid))) :
                socket[k].state = "open"
                   => /\ Len(received'[k]) = Len(received[k]) + 1
                      /\ received'[k][Len(received'[k])].sessionId
                            = req[w].sid]_vars

\* C15 (as claimed): once the completion request of a session has been
\* sent, no event of that session is sent any more: every event recorded
\* before completeSession was called went out before the completion request,
\* also when an auto-flush was still in progress at the call.
C15_NoEventAfterCompletion ==
    \A i, j \in 1..Len(posted) :
        (i < j /\ posted[i].op = "complete" /\ posted[j].op = "event")
            => posted[j].sessionId # posted[i].sessionId

\* The health probe has settled and left the agent without a connection.
Degraded == probe = "done" /\ ~agent.isConnected

\* C16: once the construction-time probe has found the backend unreachable
\* the agent stays degraded: the probe is not made again, and every call
\* made from then on returns at once (or, for timeOperation and
\* timeAsyncOperation, hands on the wrapped operation's own outcome) with no
\* request sent, nothing buffered and no flush started.
C16_DegradedIsSilent ==
    [][Degraded =>
          /\ Degraded'
          /\ posted' = <<>>
          /\ agent'.eventQueue = <<>>
          /\ agent'.sessionId = Null
          /\ flushes' = {}
          /\ driver' = "ready"
          /\ returned'.how # "pending"
          /\ returned'.how = "throw" => returned'.work = "error"]_vars

\* A degraded agent whose completeSession call has returned.
C16_Witness ==
    /\ Degraded
    /\ returned = Ret("completeSession", "return", "none", "undefined")
    /\ posted = <<>>

TimedCalls == {"timeOperation", "timeAsyncOperation"}

\* C17: a timeOperation or timeAsyncOperation call that has ended returned
\* the wrapped operation's result if the operation returned, and threw the
\* operation's own error if it threw; no other call of the agent throws,
\* whatever became of the sends.
C17_OutcomeOfTrackedWork ==
    /\ (returned.call \in TimedCalls /\ returned.how # "pending")
          => /\ returned.work = "result"
                  => returned.how = "return" /\ returned.value = "result"
             /\ returned.work = "error"
                  => returned.how = "throw" /\ returned.value = "error"
    /\ returned.call \notin TimedCalls => returned.how # "throw"

\* timeAsyncOperation threw the operation's error after the flush that its
\* recordEvent started, awaited, had sent its ten events.
C17_Witness ==
    /\ returned = Ret("timeAsyncOperation", "throw", "error", "error")
    /\ Tracking
    /\ nrec = FlushThreshold
    /\ flushes = {}
    /\ Len(SentBuffered(posted)) = FlushThreshold

\* C18 (as claimed): when no request is under way, the RealtimeStatus of
\* every session that has events, the durable row written last as well as
\* the cache copy, shows the event written last to the event log of that
\* session.
C18_StatusShowsLastEvent ==
    (\A w \in DOMAIN req : req[w].pc = "done")
       => \A id \in KnownIds :
             LET events == SelectWhere(shipping_events, "session_id", id)
                 rows == SelectWhere(realtime_status, "session_id", id)
             IN events # <<>>
                  => /\ rows # <<>>
                     /\ rows[Len(rows)].current_step
                           = events[Len(events)].event_type
                     /\ KvGet(statusKey(id)) # Null
                     /\ KvGet(statusKey(id))[1].currentStep
                           = events[Len(events)].event_type

\* C20 (as claimed): the table realtime_status holds at most one row for
\* each session.
C20_OneStatusRowPerSession ==
    \A id \in KnownIds :
        Len(SelectWhere(realtime_status, "session_id", id)) <= 1

\* C19 (as claimed): the history GET /sessions/{id} answers lists the
\* session's events, git operations and file operations in the order in
\* which their rows were written to the store.
C19_HistoryInWriteOrder ==
    \A w \in DOMAIN req :
        (req[w].kind = "analytics" /\ req[w].pc = "done"
                                   /\ req[w].resp.code = 200)
           => /\ req[w].resp.body[4]
                    = SelectWhere(shipping_events, "session_id", req[w].sid)
              /\ req[w].resp.body[6]
                    = SelectWhere(git_operations, "session_id", req[w].sid)
              /\ req[w].resp.body[8]
                    = SelectWhere(file_operations, "session_id", req[w].sid)

\* status TEXT DEFAULT 'running', -- running, completed, failed, partial
LifecycleStatuses == {"running", "completed", "failed", "partial"}

\* C21 (as claimed): the stored status of every session is one of running,
\* completed, failed, partial, whatever status the bodies of the completion
\* requests carried.
C21_StatusInLifecycleSet ==
    \A i \in 1..Len(shipping_sessions) :
        shipping_sessions[i].status \in LifecycleStatuses

\* C22 (as claimed): no step changes the row of a session that has been
\* completed: a second completion leaves its status, its end timestamp and
\* its total duration as the first one set them.
C22_SecondCompletionIsNoOp ==
    [][\A i \in 1..Len(shipping_sessions) :
          shipping_sessions[i].session_end # Null
             => shipping_sessions'[i] = shipping_sessions[i]]_vars

\* C23 (as claimed): a completion request for a session id that references
\* no session is not answered with the normal {duration, status} result,
\* and nothing is broadcast on the channel of that id.
C23_UnknownCompletionRejected ==
    \A w \in DOMAIN req :
        (/\ req[w].kind = "complete"
         /\ req[w].pc = "done"
         /\ req[w].resp.code # 0
         /\ req[w].sid \notin KnownIds)
        => /\ req[w].resp.code # 200
           /\ Broadcasts(idFromName(req[w].sid)) = 0

\* C24 (as claimed): an insights request that has been answered was answered
\* with the model's insights or, when a step of the generation failed (the
\* load of the history, the model call or the insert of the annotation),
\* with the insights-unavailable result; never with another failure.
C24_FailureIsUnavailable ==
    \A w \in DOMAIN req :
        (req[w].kind = "insights" /\ req[w].pc = "done" /\ req[w].resp.code # 0)
           => /\ req[w].resp.code = 200
              /\ req[w].resp.body \in {InsightsUnavailable,
                                       <<"response", "insights">>}

\* C25 (as claimed): the step in which gitCommitAndPush fails (it ends
\* without having set shipStatus.gitCommit) hands the run on to
\* runDeployment; the run is not ended.
C25_GitFailureDoesNotStop ==
    [][(/\ orchestrator.pc = "gitCommitAndPush"
        /\ orchestrator'.pc # "gitCommitAndPush"
        /\ ~orchestrator'.shipStatus.gitCommit)
          => /\ orchestrator'.pc = "runDeployment"
             /\ orchestrator'.exitCode = Null]_vars

\* The event types that mark the end of a step.
EndMarkers ==
    { <<"documentation", "end">>, <<"build", "end">>, <<"deploy", "end">>,
      <<"analysis", "end">>, <<"session", "end">> }

\* C26: the RealtimeStatus written for an accepted event, the durable row as
\* well as the cache copy, has currentStep equal to the event's type, isError
\* equal to the negation of the event's success flag, and stepProgress 100
\* if the type is one of the end markers and 50 otherwise, which is within
\* 0..100.
C26_StatusDerivedFromEvent ==
    [][\A w \in DOMAIN req :
          LET progress == IF req[w].type \in EndMarkers THEN 100 ELSE 50
          IN /\ (req[w].pc = "statusRow" /\ req'[w].pc = "statusKv")
                  => LET row == realtime_status'[Len(realtime_status')]
                     IN /\ req[w].type \in EventTypeEnum
                        /\ Len(realtime_status') = Len(realtime_status) + 1
                        /\ row.session_id = req[w].sid
                        /\ row.current_step = req[w].type
                        /\ row.is_error = ~req[w].success
                        /\ row.step_progress = progress
                        /\ row.step_progress \in 0..100
             /\ (req[w].pc = "statusKv" /\ req'[w].resp.code = 201)
                  => /\ statusKey(req[w].sid) \in DOMAIN kv'
                     /\ kv'[statusKey(req[w].sid)].value =
                           [currentStep |-> req[w].type,
                            stepProgress |-> progress,
                            isError |-> ~req[w].success]]_vars

\* The failed event deploy_end was recorded: its status row and the cache
\* copy show the step at 100 and in error.
C26_Witness ==
    \E i \in 1..Len(realtime_status) :
        LET row == realtime_status[i]
        IN /\ row.current_step = <<"deploy", "end">>
           /\ row.step_progress = 100
           /\ row.is_error
           /\ KvGet(statusKey(row.session_id)) # Null
           /\ KvGet(statusKey(row.session_id))[1].stepProgress = 100
           /\ KvGet(statusKey(row.session_id))[1].isError

\* C27: no session row is ever removed, and a step that changes the row of
\* a session is the UPDATE of a completion request for that session and
\* keeps its id, project and start; every other step (an event, a file or
\* git operation, a subscription, a broadcast, insight generation, the
\* expiry of cache entries) leaves every session row as it was, so a
\* running session stays running until it is completed.
C27_OnlyCompletionChangesSession ==
    [][/\ Len(shipping_sessions') >= Len(shipping_sessions)
       /\ \A i \in 1..Len(shipping_sessions) :
             shipping_sessions'[i] # shipping_sessions[i]
                => /\ shipping_sessions'[i].id = shipping_sessions[i].id
                   /\ shipping_sessions'[i].project_id
                         = shipping_sessions[i].project_id
                   /\ shipping_sessions'[i].session_start
                         = shipping_sessions[i].session_start
                   /\ \E w \in DOMAIN req :
                         /\ req[w].kind = "complete"
                         /\ req[w].pc = "updateSession"
                         /\ req[w].sid = shipping_sessions[i].id]_vars

\* A session is still running, as it was started, after an event was
\* recorded and insights were stored for it, a subscriber joined its
\* channel, and an hour passed in which its cache entries expired.
C27_Witness ==
    \E i \in 1..Len(shipping_sessions) :
        LET row == shipping_sessions[i]
        IN /\ row.status = "running"
           /\ row.session_end = Null
           /\ row.total_duration_ms = Null
           /\ SelectWhere(shipping_events, "session_id", row.id) # <<>>
           /\ SelectWhere(ai_insights, "session_id", row.id) # <<>>
           /\ socket["k1"].sessionId = row.id
           /\ clock >= KvTtlSeconds * 1000
           /\ kv = <<>>

\* C28 (as claimed): when no request is under way, every entry of the cache
\* (session record or RealtimeStatus) belongs to a session that is stored
\* with status running.
C28_CacheOnlyRunningSessions ==
    (\A w \in DOMAIN req : req[w].pc = "done")
       => \A key \in DOMAIN kv :
             \E i \in 1..Len(shipping_sessions) :
                /\ shipping_sessions[i].id = key[2]
                /\ shipping_sessions[i].status = "running"

\* C29: the step of startShippingSession or completeSession in which the
\* push to the session's channel fails (no object answers a broadcast) ends
\* the operation with its normal result, {sessionId} answered 201 or
\* {duration, status} answered 200, and leaves the store as it was, with the
\* session row written before the push in it.
C29_BroadcastFailureSwallowed ==
    [][\A w \in DOMAIN req :
          (/\ req[w].pc \in {"broadcastStarted", "broadcastCompleted"}
           /\ req'[w] # req[w]
           /\ nmsg' = nmsg)
          => /\ req'[w].pc = "done"
             /\ req[w].kind = "start"
                   => /\ req'[w].resp = [code |-> 201,
                                         body |-> <<"sessionId", req[w].sid>>]
                      /\ SelectWhere(shipping_sessions', "id", req[w].sid) # <<>>
             /\ req[w].kind = "complete"
                   => /\ req'[w].resp =
                            [code |-> 200,
                             body |-> <<"duration", req[w].duration,
                                        "status", req[w].status>>]
                      /\ \A i \in 1..Len(shipping_sessions') :
                            shipping_sessions'[i].id = req[w].sid
                               => /\ shipping_sessions'[i].status = req[w].status
                                  /\ shipping_sessions'[i].session_end
                                        = req[w].timestamp
             /\ UNCHANGED <<dbVars, kv>>]_vars

\* A session was started and its completion answered normally although
\* neither push reached its channel: the row is stored as completed.
C29_Witness ==
    \E w \in DOMAIN req :
        /\ req[w].kind = "complete"
        /\ req[w].pc = "done"
        /\ req[w].resp.code = 200
        /\ Broadcasts(idFromName(req[w].sid)) = 0
        /\ \E i \in 1..Len(shipping_sessions) :
              /\ shipping_sessions[i].id = req[w].sid
              /\ shipping_sessions[i].status = req[w].resp.body[4]
              /\ shipping_sessions[i].session_end # Null

\* C30: a subscriber whose close or error signal has been handled is in the
\* subscriber set of no channel, from the step that handles the signal on,
\* and is sent nothing any more: no later broadcast finds it in a set.
C30_ClosedSubscriberGone ==
    [][\A k \in Sockets :
          socket'[k].state = "closed"
             => /\ \A id \in DOMAIN sessions' : k \notin Range(sessions'[id])
                /\ socket[k].state = "closed"
                      => /\ received'[k] = received[k]
                         /\ \A id \in DOMAIN sessions :
                               k \notin Range(sessions[id])]_vars

\* A subscriber was sent the first broadcast of its session and then
\* closed; the second broadcast went to another subscriber of the session
\* only.
C30_Witness ==
    \E j, k \in Sockets :
        /\ socket[k].state = "closed"
        /\ socket[j].state = "open"
        /\ socket[j].sessionId = socket[k].sessionId
        /\ Len(received[k]) = 1
        /\ Len(received[j]) = MaxBroadcasts
        /\ Broadcasts(idFromName(socket[k].sessionId)) = MaxBroadcasts

\* SpecChannel: two workers complete the one session at the same time, so
\* that broadcast requests for one channel are in flight together, while
\* subscribers attach to the channel and go away.
ChannelSockets == {"k1", "k2"}

InitChannel == ServerInit(Workers, MaxChannelReqs)

NextChannel ==
    \/ \E k \in ChannelSockets, id \in KnownIds : Upgrade(k, id)
    \/ \E k \in ChannelSockets : PeerGone(k)
    \/ \E k \in ChannelSockets : OnClose(k)
    \/ \E w \in DOMAIN req :
        \/ uuid = 0 /\ BeginStartSession(w, "p1")
        \/ StartSessionSteps(w)
        \/ \E id \in KnownIds : BeginCompleteSession(w, id, "completed")
        \/ CompleteSessionSteps(w)

SpecChannel == InitChannel /\ [][NextChannel]_vars

\* C31: a subscriber that stays attached to the channel of a session is sent
\* every message the channel's object broadcasts, exactly once, whole and in
\* the order the object processed the broadcasts, also when several
\* broadcast requests for that session are in flight together: a step in
\* which the object answers a broadcast appends that one message, carrying
\* the object's next sequence number, to what the subscriber received, and
\* any other step leaves what it received alone.
C31_AttachedSubscriberGetsEachOnce ==
    [][\A k \in Sockets :
          (socket[k].state = "open" /\ socket'[k].state = "open") =>
             LET id == idFromName(socket[k].sessionId)
                 before == Broadcasts(id)
                 after == IF id \in DOMAIN nmsg' THEN nmsg'[id] ELSE 0
             IN IF after = before + 1
                THEN \E t \in MessageTypes :
                        received'[k] = Append(received[k],
                            [type |-> t, sessionId |-> socket[k].sessionId,
                             n |-> after])
                ELSE /\ after = before
                     /\ received'[k] = received[k]]_vars

\* Two completion requests for one session are both about to broadcast on
\* its channel, whose open subscriber has already been sent a message.
C31_Witness ==
    \E k \in Sockets, w1, w2 \in DOMAIN req :
        /\ w1 # w2
        /\ socket[k].state = "open"
        /\ received[k] # <<>>
        /\ req[w1].pc = "broadcastCompleted"
        /\ req[w2].pc = "broadcastCompleted"
        /\ req[w1].sid = socket[k].sessionId
        /\ req[w2].sid = socket[k].sessionId

\* SpecLog: every operation of the API that touches a session is served,
\* for two sessions, and the history of either is read.
InitLog == ServerInit({"w1"}, MaxLogReqs)

NextLog ==
    \E w \in DOMAIN req :
        \/ BeginStartSession(w, "p1")
        \/ StartSessionSteps(w)
        \/ \E id \in KnownIds : BeginRecordEvent(w, id, <<"git", "commit">>, TRUE, Null)
        \/ RecordEventSteps(w)
        \/ \E id \in KnownIds : BeginRecordFileOperation(w, id, <<"write">>)
        \/ InsertFileOperation(w)
        \/ \E id \in KnownIds : BeginRecordGitOperation(w, id, <<"commit">>)
        \/ InsertGitOperation(w)
        \/ \E id \in KnownIds : BeginCompleteSession(w, id, "completed")
        \/ CompleteSessionSteps(w)
        \/ \E id \in KnownIds : BeginGetSessionAnalytics(w, id)
        \/ GetSessionAnalytics(w)

SpecLog == InitLog /\ [][NextLog]_vars

\* The rows of a log before a step are the first rows of the log after it.
KeepsRows(before, after) ==
    /\ Len(before) <= Len(after)
    /\ SubSeq(after, 1, Len(before)) = before

\* The rows of an answered history.
HistoryRows(body) == Range(body[4]) \cup Range(body[6]) \cup Range(body[8])

\* C32: the event, git-operation and file-operation logs are append-only and
\* session-scoped: no step of the API removes or changes a row that is in
\* one of these logs, session id included, and the history answered for a
\* session holds only rows recorded with that session's id.
C32_LogsAppendOnlyAndScoped ==
    /\ [][/\ KeepsRows(shipping_events, shipping_events')
          /\ KeepsRows(git_operations, git_operations')
          /\ KeepsRows(file_operations, file_operations')]_vars
    /\ [](\A w \in DOMAIN req :
             (req[w].kind = "analytics" /\ req[w].resp.code = 200) =>
                \A row \in HistoryRows(req[w].resp.body) :
                   row.session_id = req[w].sid)

\* The history of a session that has rows was answered while a log holds a
\* row of another session.
C32_Witness ==
    \E w \in DOMAIN req :
        /\ req[w].kind = "analytics"
        /\ req[w].resp.code = 200
        /\ HistoryRows(req[w].resp.body) # {}
        /\ \E row \in LogRows : row.session_id # req[w].sid

\* C33 (as claimed): when no request is being served, the total_ships of
\* every project row is the number of sessions started for the project and
\* last_ship_at is set once the project has a session.
C33_ProjectCountersFollowSessions ==
    (\A w \in DOMAIN req : req[w].pc = "done") =>
       \A i \in 1..Len(projects) :
          LET started == Len(SelectWhere(shipping_sessions, "project_id",
                                         projects[i].id))
          IN /\ projects[i].total_ships = started
             /\ started > 0 => projects[i].last_ship_at # Null

\* The average duration over the sessions of a project stored with the
\* status completed, 0 when there is none.
CompletedAverage(projectId) ==
    LET done == SelectSeq(shipping_sessions,
                    LAMBDA r : /\ r.project_id = projectId
                               /\ r.status = "completed"
                               /\ r.total_duration_ms # Null)
    IN IF done = <<>> THEN Num(0, 1)
       ELSE Num(SumDurations(done), Len(done))

\* C34 (as claimed): the avgDuration answered by getProjectMetrics is the
\* average duration of the project's sessions whose status is completed;
\* failed and running sessions do not contribute.
C34_AvgDurationOverCompletedOnly ==
    \A w \in DOMAIN req :
        (/\ req[w].kind = "metrics"
         /\ req[w].pc = "done"
         /\ req[w].resp.code = 200)
            => req[w].resp.body[6] = CompletedAverage(req[w].pid)

\* C35 (as claimed): with a backend that answers the health probe, the
\* construction-time probe cannot degrade the agent: whenever startSession
\* has returned and the probe was answered ok, POST /api/sessions was sent.
C35_HealthyBackendStartsSession ==
    (/\ returned.call = "startSession"
     /\ returned.how = "return"
     /\ probe = "done"
     /\ agent.isConnected)
        => PostedCount("session") > 0

\* How many times the buffered event n is found: in the buffer, in the
\* snapshot of a flush that has not sent it yet, or among the sends.
TimesHeld(n) ==
    Cardinality({i \in 1..Len(agent.eventQueue) : agent.eventQueue[i].n = n})
    + SumOver([f \in flushes |->
                 Cardinality({i \in 1..Len(f.rest) : f.rest[i].n = n})],
              flushes)

TimesSent(n) ==
    Cardinality({i \in 1..Len(posted) :
        posted[i].op = "event" /\ ~posted[i].immediate /\ posted[i].n = n})

\* The events that went through the buffer: every recorded one but those
\* sent with options.immediate.
EverBuffered ==
    {n \in 1..nrec : ~\E i \in 1..Len(posted) :
        posted[i].op = "event" /\ posted[i].immediate /\ posted[i].n = n}

\* C36: every event placed in the buffer is handed to sendEvent exactly
\* once: at any moment it is either still held (in the buffer, or in the
\* snapshot of one flush that has not reached it) and was never sent, or it
\* is held nowhere and was sent once, whether its send or any other failed
\* and however flushes overlap.
C36_BufferedEventSentOnce ==
    \A n \in EverBuffered :
        \/ TimesHeld(n) = 1 /\ TimesSent(n) = 0
        \/ TimesHeld(n) = 0 /\ TimesSent(n) = 1

\* A flush is between two sends while an event recorded after its snapshot
\* waits in the buffer for the next flush.
C36_Witness ==
    \E f \in flushes :
        /\ f.rest # <<>>
        /\ agent.eventQueue # <<>>
        /\ TimesSent(f.cur) = 1
        /\ \A i \in 1..Len(agent.eventQueue) : agent.eventQueue[i].n > f.cur

\* The event types the agent is given during a ship run: the names ship()
\* passes to timeAsyncOperation, and those documentCompletedWork and
\* gitCommitAndPush pass to recordEvent and timeOperation.
ShipEventTypes ==
    { <<"documentation">>, <<"git", "commit", "push">>, <<"deployment">>,
      <<"project", "analysis">>, <<"strategic", "planning">>,
      <<"documentation", "start">>, <<"documentation", "end">>,
      <<"git", "operations", "start">>, <<"git", "no", "changes">>,
      <<"git", "add">>, <<"git", "commit">>, <<"git", "push">>,
      <<"git", "operations", "end">>, <<"git", "operations", "failed">> }

\* SpecEmit: the events of a ship run arrive at POST /api/events for a
\* started session.
InitEmit == ServerInit({"w1"}, MaxEmitReqs)

NextEmit ==
    \E w \in DOMAIN req :
        \/ BeginStartSession(w, "p1")
        \/ StartSessionSteps(w)
        \/ \E id \in KnownIds, t \in ShipEventTypes, ok \in BOOLEAN :
              BeginRecordEvent(w, id, t, ok, Null)
        \/ RecordEventSteps(w)

SpecEmit == InitEmit /\ [][NextEmit]_vars

\* C37 (as claimed): every event type the agent emits during a ship run is
\* in the enumerated event-type set of the API, so no event of a ship run
\* is answered 400 by the validation.
C37_ShipEventsPassValidation ==
    \A w \in DOMAIN req :
        (req[w].kind = "event" /\ req[w].type \in ShipEventTypes)
            => req[w].resp.code # 400

\* The calls that begin with the guard on the session id.
SessionCalls ==
    {"recordEvent", "recordFileOperation", "recordGitOperation",
     "completeSession", "generateInsights"}

C39_ConcurrentStartsBothSucceed ==
    \A w \in DOMAIN req :
        (req[w].kind = "start" /\ req[w].pc = "done" /\ req[w].resp.code # 0)
            => /\ req[w].resp.code = 201
               /\ \E i \in 1..Len(shipping_sessions) :
                     /\ shipping_sessions[i].id = req[w].sid
                     /\ shipping_sessions[i].project_id = req[w].pid
                     /\ shipping_sessions[i].status = "running"
               /\ Len(SelectWhere(projects, "id", req[w].pid)) = 1

====
